---- MODULE Spec2Model ----
(***************************************************************************)
(* A model of the dense linear-algebra engine of demo/lib/matrix.js: the   *)
(* Matrix value (rows of numbers), its private cache of derived values,    *)
(* the elementary row operations, Gaussian elimination (PLU), Gauss-Jordan *)
(* elimination (rref), solving and the null space.                         *)
(*                                                                         *)
(* Numbers are exact rationals <<num, den>> in lowest terms with den > 0:  *)
(* the model follows the arithmetic of the code step by step but without   *)
(* the rounding of IEEE doubles.  Indices are 0-based as in the code; a    *)
(* sequence s holds the code's s[i] at s[i+1].                             *)
(***************************************************************************)
EXTENDS Integers, Sequences, FiniteSets, TLC

VARIABLES rows, cache, ret, calls, heap, mats

vars == <<calls, rows, cache, ret, heap, mats>>

-----------------------------------------------------------------------------
(* Bounds of the model *)

\* A constructed matrix has at most MaxM rows,
MaxM == 3
\* at most MaxN columns
MaxN == 3
\* and at most MaxCells entries (or is a 3 x 3 square, see Squares).
MaxCells == 6
\* At most MaxCalls methods are called on the matrix that is also mutated.
MaxCalls == 2
\* At most MaxMats matrices are constructed where several are.
MaxMats == 2

-----------------------------------------------------------------------------
(* JavaScript numbers, as exact rationals *)

RECURSIVE GCD(_, _)
GCD(a, b) == IF b = 0 THEN a ELSE GCD(b, a % b)

IAbs(k) == IF k < 0 THEN -k ELSE k

\* The rational n/d in lowest terms (d # 0).
Rat(n, d) ==
    LET g == GCD(IAbs(n), IAbs(d))
        s == IF d < 0 THEN -1 ELSE 1
    IN  <<(s * n) \div g, (s * d) \div g>>

Zero == <<0, 1>>
One == <<1, 1>>
Num(k) == <<k, 1>>

\* a + b
RAdd(a, b) == Rat(a[1] * b[2] + b[1] * a[2], a[2] * b[2])
\* -a
RNeg(a) == <<-a[1], a[2]>>
\* a - b
RSub(a, b) == RAdd(a, RNeg(b))
\* a * b
RMul(a, b) == Rat(a[1] * b[1], a[2] * b[2])
\* a / b, for b # 0
RDiv(a, b) == Rat(a[1] * b[2], a[2] * b[1])
\* Math.abs(a)
RAbs(a) == <<IAbs(a[1]), a[2]>>
\* a > b
RGt(a, b) == a[1] * b[2] > b[1] * a[2]

\* A tolerance <<n, d, k>> stands for the number (n/d) * 10^(-k), n >= 0.
Tol(n, d, k) == <<n, d, k>>

\* l * 10^k > r, for l >= 0 and r >= 0, without forming 10^k
RECURSIVE ScaledGt(_, _, _)
ScaledGt(l, k, r) ==
    IF l > r THEN TRUE
    ELSE IF k = 0 \/ l = 0 THEN FALSE
    ELSE ScaledGt(l * 10, k - 1, r)

\* Math.abs(x) > eps
Exceeds(x, eps) == ScaledGt(IAbs(x[1]) * eps[2], eps[3], eps[1] * x[2])

\* The default tolerance of the pivoting operations, 1e-10
DefaultEps == Tol(1, 1, 10)

-----------------------------------------------------------------------------
(* The Vector collaborator (vector.js), as section 6 of the specification  *)
(* describes its interface.                                                *)

\* Vector.zero(n)
VZero(n) == [j \in 1..n |-> Zero]

\* Vector.e(i, n, scale): the i-th unit vector of length n, times scale
VE(i, n, scale) == [j \in 1..n |-> IF j = i + 1 THEN scale ELSE Zero]

\* v.add(other, factor, start): v[j] += factor * other[j] for j >= start
VAdd(v, other, factor, start) ==
    [j \in 1..Len(v) |->
        IF j - 1 >= start THEN RAdd(v[j], RMul(factor, other[j])) ELSE v[j]]

\* v.scale(c, start): v[j] *= c for j >= start
VScale(v, c, start) ==
    [j \in 1..Len(v) |-> IF j - 1 >= start THEN RMul(v[j], c) ELSE v[j]]

\* The sum of f[1..k]
RECURSIVE RSum(_, _)
RSum(f, k) == IF k = 0 THEN Zero ELSE RAdd(RSum(f, k - 1), f[k])

\* v.dot(w)
VDot(v, w) == RSum([j \in 1..Len(v) |-> RMul(v[j], w[j])], Len(v))

-----------------------------------------------------------------------------
(* Matrices: a sequence of rows *)

\* get m
M(A) == Len(A)

\* get n
N(A) == IF Len(A) = 0 THEN 0 ELSE Len(A[1])

\* Matrix.identity(n, lambda)
Identity(n, lambda) == [i \in 1..n |-> VE(i - 1, n, lambda)]

\* Matrix.zero(m, n)
ZeroMatrix(m, n) == [i \in 1..m |-> VZero(n)]

\* Matrix.permutation(vals)
Permutation(vals) == [i \in 1..Len(vals) |-> VE(vals[i], Len(vals), One)]

\* A.col(j)
Col(A, j) == [i \in 1..Len(A) |-> A[i][j + 1]]

\* Matrix.from(A.cols())
Transpose(A) == [j \in 1..N(A) |-> Col(A, j - 1)]

\* A.mult(B), for B.m = A.n
Mult(A, B) ==
    [i \in 1..Len(A) |->
        [k \in 1..N(B) |->
            RSum([j \in 1..Len(A[i]) |-> RMul(A[i][j], B[j][k])], Len(A[i]))]]

\* A.apply(v), for v.length = A.n
Apply(A, v) == [i \in 1..Len(A) |-> VDot(A[i], v)]

\* The rows after A.rowScale(i, c, start)
RowScale(A, i, c, start) == [A EXCEPT ![i + 1] = VScale(@, c, start)]

\* The rows after A.rowReplace(i1, i2, c, start)
RowReplace(A, i1, i2, c, start) ==
    [A EXCEPT ![i1 + 1] = VAdd(@, A[i2 + 1], c, start)]

\* The rows after A.rowSwap(i1, i2)
RowSwap(A, i1, i2) == [A EXCEPT ![i1 + 1] = A[i2 + 1], ![i2 + 1] = A[i1 + 1]]

-----------------------------------------------------------------------------
(* Leading entries and the echelon tests *)

\* leadingEntries, one row: the first column j..n-1 of the row whose entry
\* exceeds eps, or n when there is none
RECURSIVE FirstEntry(_, _, _, _)
FirstEntry(row, j, n, eps) ==
    IF j >= n THEN n
    ELSE IF Exceeds(row[j + 1], eps) THEN j
    ELSE FirstEntry(row, j + 1, n, eps)

\* leadingEntries: the loop over the rows i..m-1
RECURSIVE LeadingLoop(_, _, _, _)
LeadingLoop(A, i, eps, entries) ==
    IF i >= M(A) THEN entries
    ELSE LeadingLoop(A, i + 1, eps,
                     IF FirstEntry(A[i + 1], 0, N(A), eps) < N(A)
                     THEN Append(entries,
                                 <<i, FirstEntry(A[i + 1], 0, N(A), eps)>>)
                     ELSE entries)

\* A.leadingEntries(eps)
leadingEntries(A, eps) == LeadingLoop(A, 0, eps, <<>>)

\* An echelon loop that accepts a leading entry in any later row
RECURSIVE EchelonLoopAnyRow(_, _, _, _)
EchelonLoopAnyRow(le, k, i0, j0) ==
    IF k > Len(le) THEN TRUE
    ELSE IF le[k][1] <= i0 \/ le[k][2] <= j0 THEN FALSE
    ELSE EchelonLoopAnyRow(le, k + 1, le[k][1], le[k][2])

\* isEchelon: the loop over the leading entries le[k..], <<i0, j0>> being the
\* entry before
RECURSIVE EchelonLoop(_, _, _, _)
EchelonLoop(le, k, i0, j0) ==
    IF k > Len(le) THEN TRUE
    ELSE IF le[k][1] # i0 + 1 \/ le[k][2] <= j0 THEN FALSE
    ELSE EchelonLoop(le, k + 1, le[k][1], le[k][2])

\* A.isEchelon(eps)
isEchelon(A, eps) == EchelonLoop(leadingEntries(A, eps), 1, -1, -1)

\* A reduced-echelon loop that does not look above the leading entries
RECURSIVE RREFLoopBelow(_, _, _, _, _)
RREFLoopBelow(A, le, k, i0, j0) ==
    IF k > Len(le) THEN TRUE
    ELSE IF le[k][1] # i0 + 1 \/ le[k][2] <= j0 THEN FALSE
    ELSE IF A[le[k][1] + 1][le[k][2] + 1] # One THEN FALSE
    ELSE RREFLoopBelow(A, le, k + 1, le[k][1], le[k][2])

\* isRREF: the loop over the leading entries le[k..]
RECURSIVE RREFLoop(_, _, _, _, _)
RREFLoop(A, le, k, i0, j0) ==
    IF k > Len(le) THEN TRUE
    ELSE IF le[k][1] # i0 + 1 \/ le[k][2] <= j0 THEN FALSE
    ELSE IF A[le[k][1] + 1][le[k][2] + 1] # One THEN FALSE
    ELSE IF \E r \in 0..(le[k][1] - 1) : A[r + 1][le[k][2] + 1] # Zero THEN FALSE
    ELSE RREFLoop(A, le, k + 1, le[k][1], le[k][2])

\* A.isRREF(eps)
isRREF(A, eps) == RREFLoop(A, leadingEntries(A, eps), 1, -1, -1)

-----------------------------------------------------------------------------
(* Gaussian elimination with maximal partial pivoting: PLU *)

\* A scan in which a later row wins also when it is only as large
RECURSIVE MaxPivotRowLast(_, _, _, _)
MaxPivotRowLast(U, curCol, i, row) ==
    IF i >= Len(U) THEN row
    ELSE IF RGt(RAbs(U[row + 1][curCol + 1]), RAbs(U[i + 1][curCol + 1]))
         THEN MaxPivotRowLast(U, curCol, i + 1, row)
         ELSE MaxPivotRowLast(U, curCol, i + 1, i)

\* PLU, "Find maximal pivot": the scan of rows i..m-1 of column curCol,
\* row being the best row so far (a later row wins only if strictly larger)
RECURSIVE MaxPivotRow(_, _, _, _)
MaxPivotRow(U, curCol, i, row) ==
    IF i >= Len(U) THEN row
    ELSE IF RGt(RAbs(U[i + 1][curCol + 1]), RAbs(U[row + 1][curCol + 1]))
         THEN MaxPivotRow(U, curCol, i + 1, i)
         ELSE MaxPivotRow(U, curCol, i + 1, row)

\* A row swap that leaves the stored multipliers of L where they were
SwapMultipliersKept(L, row, curRow) == L

\* PLU, row swap: the multipliers already stored in columns 0..curRow-1 of
\* rows row and curRow of L change places
SwapMultipliers(L, row, curRow) ==
    [L EXCEPT ![row + 1] =
                [j \in 1..Len(L) |-> IF j - 1 < curRow THEN L[curRow + 1][j] ELSE @[j]],
              ![curRow + 1] =
                [j \in 1..Len(L) |-> IF j - 1 < curRow THEN L[row + 1][j] ELSE @[j]]]

\* A row swap that leaves the sign of the permutation as it was
PLUSwapSignKept(st, row, curRow) ==
    IF row # curRow
    THEN [st EXCEPT !.P = [@ EXCEPT ![row + 1] = st.P[curRow + 1],
                                   ![curRow + 1] = st.P[row + 1]],
                    !.U = RowSwap(@, row, curRow),
                    !.E = RowSwap(@, row, curRow),
                    !.L = SwapMultipliers(@, row, curRow)]
    ELSE st

\* PLU, "Row swap"
PLUSwap(st, row, curRow) ==
    IF row # curRow
    THEN [st EXCEPT !.P = [@ EXCEPT ![row + 1] = st.P[curRow + 1],
                                   ![curRow + 1] = st.P[row + 1]],
                    !.signP = @ * (-1),
                    !.U = RowSwap(@, row, curRow),
                    !.E = RowSwap(@, row, curRow),
                    !.L = SwapMultipliers(@, row, curRow)]
    ELSE st

\* PLU, "Eliminate": the multiplier of row i
Multiplier(U, i, curRow, curCol) ==
    RDiv(U[i + 1][curCol + 1], U[curRow + 1][curCol + 1])

\* PLU, "Eliminate": every row below curRow loses its entry in column curCol
PLUEliminate(st, curRow, curCol) ==
    LET m == Len(st.U)
        l(i) == Multiplier(st.U, i, curRow, curCol)
    IN  [st EXCEPT
            !.L = [i \in 1..m |->
                     IF i - 1 > curRow
                     THEN [@[i] EXCEPT ![curRow + 1] = l(i - 1)]
                     ELSE @[i]],
            !.U = [i \in 1..m |->
                     IF i - 1 > curRow
                     THEN VAdd([@[i] EXCEPT ![curCol + 1] = Zero],
                               st.U[curRow + 1], RNeg(l(i - 1)), curCol + 1)
                     ELSE @[i]],
            !.E = [i \in 1..m |->
                     IF i - 1 > curRow
                     THEN VAdd(@[i], st.E[curRow + 1], RNeg(l(i - 1)), 0)
                     ELSE @[i]],
            !.pivots = Append(@, <<curRow, curCol>>)]

\* A non-pivot column left as it is
PLUClearNone(st, curRow, curCol) == st

\* PLU, "Clear the column so U is really upper-triangular"
PLUClear(st, curRow, curCol) ==
    [st EXCEPT !.U = [i \in 1..Len(@) |->
                        IF i - 1 >= curRow
                        THEN [@[i] EXCEPT ![curCol + 1] = Zero]
                        ELSE @[i]]]

\* PLU: the loop over the columns
RECURSIVE PLULoop(_, _, _, _, _)
PLULoop(st, curRow, curCol, n, eps) ==
    IF ~(curRow < Len(st.U) /\ curCol < n) THEN st
    ELSE LET row == MaxPivotRow(st.U, curCol, curRow + 1, curRow)
             pivot == st.U[row + 1][curCol + 1]
         IN  IF Exceeds(pivot, eps)
             THEN PLULoop(PLUEliminate(PLUSwap(st, row, curRow), curRow, curCol),
                          curRow + 1, curCol + 1, n, eps)
             ELSE PLULoop(PLUClear(st, curRow, curCol), curRow, curCol + 1, n, eps)

\* PLU, the computation behind the cache test: {P, L, U, E, pivots, signP}
PLUFactor(A, eps) ==
    PLULoop([P |-> [i \in 1..M(A) |-> i - 1],
             L |-> Identity(M(A), One),
             E |-> Identity(M(A), One),
             U |-> A,
             pivots |-> <<>>,
             signP |-> 1],
            0, 0, N(A), eps)

-----------------------------------------------------------------------------
(* Matrix objects and their caches.  An object is [rows, cache]; a cache    *)
(* field is <<>> while absent and <<value>> once stored.  A method takes    *)
(* the object and yields [obj, val, threw]: the object after the call (its  *)
(* cache may have grown), the value returned, and whether it threw instead. *)

\* get _cache, on first use: {}
EmptyCache ==
    [transpose |-> <<>>, normal |-> <<>>, charpoly |-> <<>>, PLU |-> <<>>,
     rank |-> <<>>, rref |-> <<>>, rowOps |-> <<>>, nullBasis |-> <<>>,
     colBasis |-> <<>>, rowBasis |-> <<>>, leftNullBasis |-> <<>>,
     QR |-> <<>>, eigenvalues |-> <<>>, eigenspaces |-> <<>>,
     cplxEigenspaces |-> <<>>]

\* A matrix just constructed from the rows A
Obj(A) == [rows |-> A, cache |-> EmptyCache]

Return(obj, val) == [obj |-> obj, val |-> val, threw |-> FALSE]
Throw(obj, msg) == [obj |-> obj, val |-> msg, threw |-> TRUE]

\* null
Null == <<>>

\* A.isSquare()
isSquare(obj) == M(obj.rows) = N(obj.rows)

\* A factorization computed at every call
PLURecomputed(obj, eps) ==
    Return([obj EXCEPT !.cache.PLU = <<PLUFactor(obj.rows, eps)>>],
           PLUFactor(obj.rows, eps))

\* PLU, the end: the factorization is stored in the cache and returned
StorePLU(obj, v) == Return([obj EXCEPT !.cache.PLU = <<v>>], v)

\* A.PLU(eps)
PLU(obj, eps) ==
    IF obj.cache.PLU # <<>> THEN Return(obj, obj.cache.PLU[1])
    ELSE StorePLU(obj, PLUFactor(obj.rows, eps))

\* pivots: the pivots field of the outcome r of PLU
PivotsOf(r) == Return(r.obj, r.val.pivots)

\* A.pivots(eps)
pivots(obj, eps) == PivotsOf(PLU(obj, eps))

\* rank: the number of pivots (r is the outcome of pivots) is stored
StoreRank(r) ==
    Return([r.obj EXCEPT !.cache.rank = <<Len(r.val)>>], Len(r.val))

\* A.rank(eps)
rank(obj, eps) ==
    IF obj.cache.rank = <<>> \* Hasn't been computed yet
    THEN StoreRank(pivots(obj, eps))
    ELSE Return(obj, obj.cache.rank[1])

\* nullity: n minus the outcome r of rank
NullityOf(r, n) == Return(r.obj, n - r.val)

\* A.nullity(eps)
nullity(obj, eps) == NullityOf(rank(obj, eps), N(obj.rows))

-----------------------------------------------------------------------------
(* Gauss-Jordan elimination: rref, rowOps, inverse *)

\* A pass that scales the pivot row but clears nothing above the pivot
RrefPivotScaleOnly(st, row, col) ==
    [rref |-> [RowScale(st.rref, row,
                        RDiv(One, st.rref[row + 1][col + 1]), col + 1)
                 EXCEPT ![row + 1][col + 1] = One],
     rowOps |-> RowScale(st.rowOps, row,
                         RDiv(One, st.rref[row + 1][col + 1]), 0)]

\* A pass that reads the multiplier for rowOps after the entry was cleared
RrefPivotOpsLate(st, row, col) ==
    LET pivot == st.rref[row + 1][col + 1]
        c(i) == RNeg(RDiv(st.rref[i + 1][col + 1], pivot))
    IN  [rref |-> [RowScale([i \in 1..Len(st.rref) |->
                                IF i - 1 < row
                                THEN [VAdd(st.rref[i], st.rref[row + 1],
                                           c(i - 1), col + 1)
                                        EXCEPT ![col + 1] = Zero]
                                ELSE st.rref[i]],
                            row, RDiv(One, pivot), col + 1)
                     EXCEPT ![row + 1][col + 1] = One],
         rowOps |-> RowScale(st.rowOps, row, RDiv(One, pivot), 0)]

\* rref, one pass of the loop: the pivot at <<row, col>> clears the entries
\* above it, then its row is scaled so that the pivot is 1
RrefPivot(st, row, col) ==
    LET pivot == st.rref[row + 1][col + 1]
        c(i) == RNeg(RDiv(st.rref[i + 1][col + 1], pivot))
        above == [st EXCEPT
            !.rref = [i \in 1..Len(@) |->
                        IF i - 1 < row
                        THEN [VAdd(@[i], st.rref[row + 1], c(i - 1), col + 1)
                                EXCEPT ![col + 1] = Zero]
                        ELSE @[i]],
            !.rowOps = [i \in 1..Len(@) |->
                        IF i - 1 < row
                        THEN VAdd(@[i], st.rowOps[row + 1], c(i - 1), 0)
                        ELSE @[i]]]
    IN  [rref |-> [RowScale(above.rref, row, RDiv(One, pivot), col + 1)
                     EXCEPT ![row + 1][col + 1] = One],
         rowOps |-> RowScale(above.rowOps, row, RDiv(One, pivot), 0)]

\* rref: the loop over the pivots, last pivot first (k counts down to 0)
RECURSIVE RrefLoop(_, _, _)
RrefLoop(st, pv, k) ==
    IF k < 0 THEN st
    ELSE RrefLoop(RrefPivot(st, pv[k + 1][1], pv[k + 1][2]), pv, k - 1)

\* rref, the end: rref and rowOps are stored in the cache
StoreRref(obj, st) ==
    Return([obj EXCEPT !.cache.rref = <<st.rref>>,
                       !.cache.rowOps = <<st.rowOps>>],
           st.rref)

\* A loop whose rowOps starts from the identity and not from a clone of E
RrefFromIdentity(r) ==
    StoreRref(r.obj, RrefLoop([rref |-> r.val.U,
                               rowOps |-> Identity(Len(r.val.U), One)],
                              r.val.pivots, Len(r.val.pivots) - 1))

\* rref, from the outcome r of PLU: clones of U and E go through the loop
RrefFrom(r) ==
    StoreRref(r.obj, RrefLoop([rref |-> r.val.U, rowOps |-> r.val.E],
                              r.val.pivots, Len(r.val.pivots) - 1))

\* A.rref(eps)
rref(obj, eps) ==
    IF obj.cache.rref # <<>> THEN Return(obj, obj.cache.rref[1])
    ELSE RrefFrom(PLU(obj, eps))

\* rowOps: the cache field that the call r of rref has stored
RowOpsOf(r) == Return(r.obj, r.obj.cache.rowOps[1])

\* A.rowOps(eps)
rowOps(obj, eps) ==
    IF obj.cache.rowOps # <<>> THEN Return(obj, obj.cache.rowOps[1])
    ELSE RowOpsOf(rref(obj, eps))

\* this.rank(eps) == k, r being the outcome of rank
RankIs(r, k) == Return(r.obj, r.val = k)

\* A full-row-rank test that computes the rank whatever the shape
isFullRowRankEager(obj, eps) == RankIs(rank(obj, eps), M(obj.rows))

\* A.isFullRowRank(eps)
isFullRowRank(obj, eps) ==
    IF M(obj.rows) > N(obj.rows) THEN Return(obj, FALSE) \* Don't need to row reduce
    ELSE RankIs(rank(obj, eps), M(obj.rows))

\* A.isFullColRank(eps)
isFullColRank(obj, eps) ==
    IF M(obj.rows) < N(obj.rows) THEN Return(obj, FALSE) \* Don't need to row reduce
    ELSE RankIs(rank(obj, eps), N(obj.rows))

\* isInvertible: r && this.isFullColRank(eps), r the outcome of isFullRowRank
AndFullColRank(r, eps) == IF r.val THEN isFullColRank(r.obj, eps) ELSE r

\* A.isInvertible(eps)
isInvertible(obj, eps) == AndFullColRank(isFullRowRank(obj, eps), eps)

\* An inverse that returns E whatever isInvertible says
InverseUnchecked(E, inv) == Return(inv.obj, E)

\* inverse, the end: E is returned unless isInvertible (outcome inv) is false
InverseCheck(E, inv) ==
    IF ~inv.val THEN Throw(inv.obj, "Tried to invert a singular matrix")
    ELSE Return(inv.obj, E)

\* inverse, after let E = this.rowOps(eps) with outcome e
InverseFrom(e, eps) == InverseCheck(e.val, isInvertible(e.obj, eps))

\* A.inverse(eps)
inverse(obj, eps) ==
    IF ~isSquare(obj) THEN Throw(obj, "Tried to invert a non-square matrix")
    ELSE InverseFrom(rowOps(obj, eps), eps)

-----------------------------------------------------------------------------
(* Solving *)

\* transpose, the end: the new matrix t is stored in the cache
StoreTranspose(obj, t) == Return([obj EXCEPT !.cache.transpose = <<t>>], t)

\* get transpose
transpose(obj) ==
    IF obj.cache.transpose # <<>> THEN Return(obj, obj.cache.transpose[1])
    ELSE StoreTranspose(obj, Obj(Transpose(obj.rows)))

\* A.mult(B) as a method: a new matrix, or an error
mult(obj, B) ==
    IF M(B) # N(obj.rows)
    THEN Throw(obj, "Cannot multiply matrices of incompatible dimensions")
    ELSE Return(obj, Obj(Mult(obj.rows, B)))

\* normal, the end: the product p = this.transpose.mult(this) is stored,
\* t being the outcome of this.transpose
StoreNormal(t, p) ==
    IF p.threw THEN Throw(t.obj, p.val)
    ELSE Return([t.obj EXCEPT !.cache.normal = <<p.val>>], p.val)

\* normal, after this.transpose with outcome t
NormalFrom(t, A) == StoreNormal(t, mult(t.val, A))

\* get normal
normal(obj) ==
    IF obj.cache.normal # <<>> THEN Return(obj, obj.cache.normal[1])
    ELSE NormalFrom(transpose(obj), obj.rows)

\* solve, "Solve Ly = Pb by forward-substitution": y[i] -= L[i][ii] * y[ii]
\* for ii = 0..i-1
RECURSIVE ForwardRow(_, _, _, _)
ForwardRow(L, y, i, ii) ==
    IF ii >= i THEN y
    ELSE ForwardRow(L, [y EXCEPT ![i + 1] =
                            RSub(@, RMul(L[i + 1][ii + 1], y[ii + 1]))],
                    i, ii + 1)

\* solve: the forward-substitution for the rows i..m-1
RECURSIVE Forward(_, _, _)
Forward(L, y, i) ==
    IF i >= Len(y) THEN y ELSE Forward(L, ForwardRow(L, y, i, 0), i + 1)

\* solve, "Check if a solution exists"
Inconsistent(y, r, eps) == \E i \in r..(Len(y) - 1) : Exceeds(y[i + 1], eps)

\* solve, back-substitution: x[col] -= U[row][col1] * x[col1] for the pivots
\* pp..r-1
RECURSIVE BackRow(_, _, _, _, _, _, _)
BackRow(U, pv, x, row, col, pp, r) ==
    IF pp >= r THEN x
    ELSE LET col1 == pv[pp + 1][2]
         IN  BackRow(U, pv,
                     [x EXCEPT ![col + 1] =
                         RSub(@, RMul(U[row + 1][col1 + 1], x[col1 + 1]))],
                     row, col, pp + 1, r)

\* solve, "Solve Ux = y by reverse-substitution": the pivots p, p-1, ..., 0
RECURSIVE Back(_, _, _, _, _, _)
Back(U, pv, y, x, p, r) ==
    IF p < 0 THEN x
    ELSE LET row == pv[p + 1][1]
             col == pv[p + 1][2]
             x1 == BackRow(U, pv, [x EXCEPT ![col + 1] = y[row + 1]],
                           row, col, p + 1, r)
         IN  Back(U, pv, y,
                  [x1 EXCEPT ![col + 1] = RDiv(@, U[row + 1][col + 1])],
                  p - 1, r)

\* solve, after the forward-substitution gave y: null, or the solution x
SolveBack(obj, f, r, y, n, eps) ==
    IF Inconsistent(y, r, eps) THEN Return(obj, Null)
    ELSE IF r > Len(f.pivots) THEN Throw(obj, "TypeError")
    ELSE Return(obj, <<Back(f.U, f.pivots, y, VZero(n), r - 1, r)>>)

\* A forward-substitution on b itself, not on b permuted by P
SolveWithUnpermuted(f, rk, b, m, n, eps) ==
    SolveBack(rk.obj, f, rk.val, Forward(f.L, b, 1), n, eps)

\* solve, with the factorization f and the outcome rk of this.rank(eps):
\* Pb is b permuted by P
SolveWith(f, rk, b, m, n, eps) ==
    SolveBack(rk.obj, f, rk.val,
              Forward(f.L, [i \in 1..m |-> b[f.P[i] + 1]], 1), n, eps)

\* solve, after this.PLU(eps) with outcome f
SolveFrom(f, b, m, n, eps) == SolveWith(f.val, rank(f.obj, eps), b, m, n, eps)

\* A.solve(b, eps)
solve(obj, b, eps) ==
    IF Len(b) # M(obj.rows)
    THEN Throw(obj, "Incompatible dimensions of matrix and vector")
    ELSE SolveFrom(PLU(obj, eps), b, M(obj.rows), N(obj.rows), eps)

\* A.apply(v) as a method
apply(obj, v) ==
    IF Len(v) # N(obj.rows)
    THEN Throw(obj, "Cannot multiply matrix and vector of incompatible dimensions")
    ELSE Return(obj, Apply(obj.rows, v))

\* solveLeastSquares, the end: the outcome s of normal.solve(...); what that
\* call cached stays in the normal matrix, itself in the cache of this
LeastSquaresEnd(obj, s) ==
    [obj |-> [obj EXCEPT !.cache.normal = <<s.obj>>],
     val |-> s.val, threw |-> s.threw]

\* solveLeastSquares, with the normal matrix nm and the outcome tb of
\* this.transpose.apply(b)
LeastSquaresWith(obj, nm, tb, eps) ==
    IF tb.threw THEN Throw(obj, tb.val)
    ELSE LeastSquaresEnd(obj, solve(nm, tb.val, eps))

\* solveLeastSquares, with the normal matrix nm and the outcome t of
\* this.transpose
LeastSquaresApply(nm, t, b, eps) ==
    LeastSquaresWith(t.obj, nm, apply(t.val, b), eps)

\* solveLeastSquares, after this.normal with outcome nm
LeastSquaresFrom(nm, b, eps) ==
    IF nm.threw THEN nm
    ELSE LeastSquaresApply(nm.val, transpose(nm.obj), b, eps)

\* A.solveLeastSquares(b, eps)
solveLeastSquares(obj, b, eps) == LeastSquaresFrom(normal(obj), b, eps)

-----------------------------------------------------------------------------
(* The null space *)

\* A free column whose entries are copied without the change of sign
FreeVectorUnnegated(R, previous, j, n) ==
    [c \in 1..n |->
        IF c = j + 1 THEN One
        ELSE IF \E k \in 1..Len(previous) : previous[k][2] = c - 1
             THEN LET k == CHOOSE k \in 1..Len(previous) : previous[k][2] = c - 1
                  IN  R[previous[k][1] + 1][j + 1]
             ELSE Zero]

\* nullBasis, a free column j: 1 at j, the negated entries of column j of
\* the rref at the columns of the pivots met so far (previous)
FreeVector(R, previous, j, n) ==
    [c \in 1..n |->
        IF c = j + 1 THEN One
        ELSE IF \E k \in 1..Len(previous) : previous[k][2] = c - 1
             THEN LET k == CHOOSE k \in 1..Len(previous) : previous[k][2] = c - 1
                  IN  RNeg(R[previous[k][1] + 1][j + 1])
             ELSE Zero]

\* nullBasis: the loop over the columns j..n-1; np counts the pivots already
\* shifted from the copy of the pivot list into previous
RECURSIVE NullLoop(_, _, _, _, _, _)
NullLoop(R, all, np, j, n, basis) ==
    IF j >= n THEN basis
    ELSE IF np < Len(all) /\ all[np + 1][2] = j
         THEN NullLoop(R, all, np + 1, j + 1, n, basis)
         ELSE NullLoop(R, all, np, j + 1, n,
                       Append(basis, FreeVector(R, SubSeq(all, 1, np), j, n)))

\* nullBasis, the end: the basis is stored in the cache
StoreNullBasis(obj, basis) ==
    Return([obj EXCEPT !.cache.nullBasis = <<basis>>], basis)

\* nullBasis, with the reduced row echelon form R and the outcome pv of
\* this.pivots(eps)
NullBasisWith(R, pv, n) ==
    StoreNullBasis(pv.obj, NullLoop(R, pv.val, 0, 0, n, <<>>))

\* nullBasis, after this.rref(eps) with outcome r
NullBasisFrom(r, n, eps) == NullBasisWith(r.val, pivots(r.obj, eps), n)

\* A.nullBasis(eps)
nullBasis(obj, eps) ==
    IF obj.cache.nullBasis # <<>> THEN Return(obj, obj.cache.nullBasis[1])
    ELSE NullBasisFrom(rref(obj, eps), N(obj.rows), eps)

-----------------------------------------------------------------------------
(* The other bases: colBasis, rowBasis, leftNullBasis *)

\* colBasis, the end: the pivot columns of this (pv is the outcome of pivots)
StoreColBasis(pv) ==
    Return([pv.obj EXCEPT !.cache.colBasis =
                <<[k \in 1..Len(pv.val) |-> Col(pv.obj.rows, pv.val[k][2])]>>],
           [k \in 1..Len(pv.val) |-> Col(pv.obj.rows, pv.val[k][2])])

\* A.colBasis(eps)
colBasis(obj, eps) ==
    IF obj.cache.colBasis # <<>> THEN Return(obj, obj.cache.colBasis[1])
    ELSE StoreColBasis(pivots(obj, eps))

\* rowBasis, the end: the pivot rows of U (f is the outcome of PLU)
StoreRowBasis(f) ==
    Return([f.obj EXCEPT !.cache.rowBasis =
                <<[k \in 1..Len(f.val.pivots) |->
                      f.val.U[f.val.pivots[k][1] + 1]]>>],
           [k \in 1..Len(f.val.pivots) |-> f.val.U[f.val.pivots[k][1] + 1]])

\* A.rowBasis(eps)
rowBasis(obj, eps) ==
    IF obj.cache.rowBasis # <<>> THEN Return(obj, obj.cache.rowBasis[1])
    ELSE StoreRowBasis(PLU(obj, eps))

\* A left null basis taken from the first rows of E
StoreLeftNullBasisFirst(E, r) ==
    Return([r.obj EXCEPT !.cache.leftNullBasis =
                <<[k \in 1..(Len(E) - r.val) |-> E[k]]>>],
           [k \in 1..(Len(E) - r.val) |-> E[k]])

\* leftNullBasis, the end: the rows r..m-1 of E, r being the outcome of rank
StoreLeftNullBasis(E, r) ==
    Return([r.obj EXCEPT !.cache.leftNullBasis =
                <<[k \in 1..(Len(E) - r.val) |-> E[r.val + k]]>>],
           [k \in 1..(Len(E) - r.val) |-> E[r.val + k]])

\* leftNullBasis, after let {E} = this.PLU(eps) with outcome f
LeftNullBasisFrom(f, eps) == StoreLeftNullBasis(f.val.E, rank(f.obj, eps))

\* A.leftNullBasis(eps)
leftNullBasis(obj, eps) ==
    IF obj.cache.leftNullBasis # <<>>
    THEN Return(obj, obj.cache.leftNullBasis[1])
    ELSE LeftNullBasisFrom(PLU(obj, eps), eps)

-----------------------------------------------------------------------------
(* QR by modified Gram-Schmidt.  A length is a square root, which a         *)
(* rational cannot hold: a unit vector u / |u| is kept as the pair          *)
(* <<u, u.u>>, an entry of Q or R as <<x, sq>> for x / sqrt(sq), and a      *)
(* length is compared with a tolerance by its square.                       *)

\* l > eps for the length l = sqrt(sq), that is sq > eps^2
SizeExceeds(sq, eps) ==
    ScaledGt(sq[1] * eps[2] * eps[2], 2 * eps[3], eps[1] * eps[1] * sq[2])

\* QR, the inner loop over jj..j-1: u loses its projection on each ui[jj]
\* (ui[jj].dot(u) is taken with the current u)
RECURSIVE QRProject(_, _, _, _)
QRProject(ui, u, jj, j) ==
    IF jj >= j THEN u
    ELSE IF ui[jj + 1][2] = Zero THEN QRProject(ui, u, jj + 1, j)
    ELSE QRProject(ui,
                   VAdd(u, ui[jj + 1][1],
                        RNeg(RDiv(VDot(ui[jj + 1][1], u), ui[jj + 1][2])), 0),
                   jj + 1, j)

\* QR, R[jj][j] = factor for the rows jj above the diagonal of column j of R
\* (the other entries are those of Matrix.zero(n)): ui[jj].dot(u) with the
\* u that has lost its projections on ui[0..jj-1].  An entry <<x, sq>> is the
\* number x / sqrt(sq), and <<0, 1>> is 0
QRFactors(ui, v, j, n) ==
    [k \in 1..n |->
        IF k - 1 < j /\ ui[k][2] # Zero
        THEN <<VDot(ui[k][1], QRProject(ui, v, 0, k - 1)), ui[k][2]>>
        ELSE <<Zero, One>>]

\* QR, one column: ui[j] is the residual u scaled by 1/l and R[j][j] is its
\* length l, or ui[j] is the zero vector and R[j][j] is 0 (and j joins LD)
\* when the length does not exceed eps
QRColumn(st, u, j, m, eps) ==
    IF SizeExceeds(VDot(u, u), eps)
    THEN [st EXCEPT !.ui = Append(@, <<u, VDot(u, u)>>),
                    !.R[j + 1][j + 1] = <<VDot(u, u), VDot(u, u)>>]
    ELSE [st EXCEPT !.ui = Append(@, <<VZero(m), Zero>>),
                    !.LD = Append(@, j)]

\* QR, the loop over the columns j..n-1; st.R holds the columns of R
RECURSIVE QRLoop(_, _, _, _)
QRLoop(A, st, j, eps) ==
    IF j >= N(A) THEN st
    ELSE QRLoop(A,
                QRColumn([st EXCEPT !.R = Append(@, QRFactors(st.ui, Col(A, j),
                                                              j, N(A)))],
                         QRProject(st.ui, Col(A, j), 0, j), j, M(A), eps),
                j + 1, eps)

\* Matrix.from(ui).transpose: the matrix whose columns are the ui, with the
\* entries <<x, sq>> for x / sqrt(sq); no ui at all make a 0 x 0 matrix
QRQ(ui) ==
    [i \in 1..(IF Len(ui) = 0 THEN 0 ELSE Len(ui[1][1])) |->
        [j \in 1..Len(ui) |-> <<ui[j][1][i], ui[j][2]>>]]

\* R by its rows, from its columns
QRR(cols) == [i \in 1..Len(cols) |-> [j \in 1..Len(cols) |-> cols[j][i]]]

\* QR, the end: the factorization is stored, and the rank with it
StoreQR(obj, st) ==
    Return([obj EXCEPT !.cache.QR = <<[Q |-> QRQ(st.ui), R |-> QRR(st.R),
                                       LD |-> st.LD]>>,
                       !.cache.rank = <<N(obj.rows) - Len(st.LD)>>],
           [Q |-> QRQ(st.ui), R |-> QRR(st.R), LD |-> st.LD])

\* A.QR(eps)
QR(obj, eps) ==
    IF obj.cache.QR # <<>> THEN Return(obj, obj.cache.QR[1])
    ELSE StoreQR(obj, QRLoop(obj.rows, [ui |-> <<>>, R |-> <<>>, LD |-> <<>>],
                             0, eps))

-----------------------------------------------------------------------------
(* The Polynomial collaborator (polynomial.js), as sections 1 and 6 of the  *)
(* specification describe it: a list of coefficients, leading one first.    *)
(* A root is real or Complex; factor finds the roots among Candidates, and  *)
(* the matrices studied are those whose characteristic polynomial has all   *)
(* its roots there.                                                         *)

\* A real root, and new Complex(re, im)
Real(re) == [cplx |-> FALSE, Re |-> re, Im |-> Zero]
Complex(re, im) == [cplx |-> TRUE, Re |-> re, Im |-> im]

\* Polynomial.create(...coeffs)
PolyCreate(coeffs) == coeffs

\* p.scale(c), in place
PolyScale(p, c) == [k \in 1..Len(p) |-> RMul(p[k], c)]

\* Division of p by x^2 - s x + t: b[k] = p[k] + s b[k-1] - t b[k-2]; the
\* last two of b are the remainder, the others the quotient
RECURSIVE PolyDivide(_, _, _, _)
PolyDivide(p, s, t, b) ==
    IF Len(b) = Len(p) THEN b
    ELSE PolyDivide(p, s, t,
            Append(b, RSub(RAdd(p[Len(b) + 1],
                                IF Len(b) >= 1 THEN RMul(s, b[Len(b)]) ELSE Zero),
                           IF Len(b) >= 2 THEN RMul(t, b[Len(b) - 1]) ELSE Zero)))

\* The roots factor can return: the integers -2..2, then i, 1 + i, -1 + i
\* (each standing for itself and its conjugate)
Candidates ==
    <<Complex(Zero, One), Complex(One, One), Complex(Num(-1), One),
      Real(Num(-2)), Real(Num(-1)), Real(Zero), Real(One), Real(Num(2))>>

\* p divided by x - c (c real) or by (x - c)(x - conj c): the list b above
DivideByRoot(p, c) ==
    IF c.cplx
    THEN PolyDivide(p, RMul(Num(2), c.Re),
                    RAdd(RMul(c.Re, c.Re), RMul(c.Im, c.Im)), <<>>)
    ELSE PolyDivide(p, c.Re, Zero, <<>>)

\* c is a root of p
IsRoot(p, c) ==
    /\ Len(p) > (IF c.cplx THEN 2 ELSE 1)
    /\ DivideByRoot(p, c)[Len(p)] = Zero
    /\ c.cplx => DivideByRoot(p, c)[Len(p) - 1] = Zero

\* p without the factor of the root c
Deflate(p, c) ==
    SubSeq(DivideByRoot(p, c), 1, Len(p) - (IF c.cplx THEN 2 ELSE 1))

\* The root c with multiplicity mu joins the list (with its conjugate)
WithRoot(roots, c, mu) ==
    IF mu = 0 THEN roots
    ELSE IF c.cplx
    THEN roots \o <<<<c, mu>>, <<Complex(c.Re, RNeg(c.Im)), mu>>>>
    ELSE Append(roots, <<c, mu>>)

\* factor: the candidates from the k-th on are divided out of p, mu
\* counting how often the k-th one was
RECURSIVE FactorLoop(_, _, _, _)
FactorLoop(p, k, mu, roots) ==
    IF k > Len(Candidates) THEN [rest |-> p, roots |-> roots]
    ELSE IF IsRoot(p, Candidates[k])
    THEN FactorLoop(Deflate(p, Candidates[k]), k, mu + 1, roots)
    ELSE FactorLoop(p, k + 1, 0, WithRoot(roots, Candidates[k], mu))

\* p.factor(eps): [[value, multiplicity], ...], implemented up to degree 4
PolyFactor(obj, p, eps) ==
    IF Len(p) - 1 > 4
    THEN Throw(obj, "Polynomial factoring is only implemented in degrees <= 4")
    ELSE Return(obj, FactorLoop(p, 1, 0, <<>>).roots)

\* All the roots of p are among the candidates
Splits(p) == Len(FactorLoop(p, 1, 0, <<>>).rest) = 1

-----------------------------------------------------------------------------
(* Trace, characteristic polynomial, determinant, eigenvalues *)

\* A.diag(): the entries self[j][j] for j < Math.min(m, n)
Diag(A) == [j \in 1..(IF M(A) < N(A) THEN M(A) ELSE N(A)) |-> A[j][j]]

\* get trace
Trace(A) == RSum(Diag(A), Len(Diag(A)))

\* charpoly, the inner loop: ret[i] += ret[j] * traces[i-j-1] for j..i-1
RECURSIVE CharpolySum(_, _, _, _, _)
CharpolySum(coef, traces, i, j, acc) ==
    IF j >= i THEN acc
    ELSE CharpolySum(coef, traces, i, j + 1,
                     RAdd(acc, RMul(coef[j + 1], traces[i - j])))

\* charpoly, one round of the outer loop: the trace of the power joins
\* traces, the power is multiplied by this, and
\* ret[i] = -(traces[i] + sum) / (i + 1) joins ret
CharpolyStep(A, st, i) ==
    [power |-> Mult(st.power, A),
     traces |-> Append(st.traces, Trace(st.power)),
     coef |-> Append(st.coef,
                 RDiv(RNeg(CharpolySum(st.coef,
                                       Append(st.traces, Trace(st.power)),
                                       i, 0, Trace(st.power))),
                      Num(i + 1)))]

\* charpoly, the outer loop over i..n-1
RECURSIVE CharpolyLoop(_, _, _)
CharpolyLoop(A, st, i) ==
    IF i >= N(A) THEN st.coef
    ELSE CharpolyLoop(A, CharpolyStep(A, st, i), i + 1)

\* charpoly without the sign: det(lambda I - A)
CharpolyMonic(A) ==
    PolyCreate(<<One>> \o CharpolyLoop(A, [power |-> A, traces |-> <<>>,
                                           coef |-> <<>>], 0))

\* A characteristic polynomial left as det(lambda I - A)
CharpolyUnsigned(p, n) == p

\* charpoly, the end: "multiply by (-1)^n now"
CharpolySigned(p, n) == IF n % 2 = 1 THEN PolyScale(p, Num(-1)) ELSE p

\* charpoly, the polynomial stored
StoreCharpoly(obj, p) == Return([obj EXCEPT !.cache.charpoly = <<p>>], p)

\* get charpoly
charpoly(obj) ==
    IF obj.cache.charpoly # <<>> THEN Return(obj, obj.cache.charpoly[1])
    ELSE IF ~isSquare(obj)
    THEN Throw(obj, "Tried to compute the characteristic polynomial of a non-square matrix")
    ELSE StoreCharpoly(obj, CharpolySigned(CharpolyMonic(obj.rows), N(obj.rows)))

\* det: this.charpoly[this.n], c being the outcome of this.charpoly
DetOf(c, n) == IF c.threw THEN c ELSE Return(c.obj, c.val[n + 1])

\* get det
det(obj) == DetOf(charpoly(obj), N(obj.rows))

\* A trace that is refused on a non-square matrix
traceOfSquare(obj) ==
    IF ~isSquare(obj)
    THEN Throw(obj, "Tried to compute the trace of a non-square matrix")
    ELSE Return(obj, Trace(obj.rows))

\* get trace, as a method
trace(obj) == Return(obj, Trace(obj.rows))

\* eigenvalues, the end: the outcome f of factor is stored unless it threw
StoreEigenvalues(f) ==
    IF f.threw THEN f
    ELSE Return([f.obj EXCEPT !.cache.eigenvalues = <<f.val>>], f.val)

\* eigenvalues, after this.charpoly with outcome c
EigenvaluesFrom(c, eps) ==
    IF c.threw THEN c ELSE StoreEigenvalues(PolyFactor(c.obj, c.val, eps))

\* A.eigenvalues(eps)
eigenvalues(obj, eps) ==
    IF obj.cache.eigenvalues # <<>> THEN Return(obj, obj.cache.eigenvalues[1])
    ELSE IF ~isSquare(obj)
    THEN Throw(obj, "Tried to compute the eigenvalues of a non-square matrix")
    ELSE EigenvaluesFrom(charpoly(obj), eps)

\* A hint that is dropped
hintIgnored(obj, hinted) == Return(obj, Null)

\* A.hintEigenvalues(...eigenvalues)
hintEigenvalues(obj, hinted) ==
    Return([obj EXCEPT !.cache.eigenvalues = <<hinted>>], Null)

-----------------------------------------------------------------------------
(* Construction and in-place mutation *)

\* Matrix.create(...rows): TRUE when it throws "Matrix rows must have the
\* same length."
CreateThrows(rs) ==
    Len(rs) # 0 /\ \E i \in 1..Len(rs) : Len(rs[i]) # Len(rs[1])

\* An invalidation that keeps the stored rank
invalidateButRank(obj) ==
    Return([obj EXCEPT !.cache = [EmptyCache EXCEPT !.rank = obj.cache.rank]],
           Null)

\* A.invalidate()
invalidate(obj) == Return([obj EXCEPT !.cache = EmptyCache], Null)

\* Array.prototype.splice(j, del, ...items) on a row
Splice(row, j, del, items) ==
    LET start == IF j < Len(row) THEN j ELSE Len(row)
        dc == IF del < Len(row) - start THEN del ELSE Len(row) - start
    IN  SubSeq(row, 1, start) \o items \o SubSeq(row, start + dc + 1, Len(row))

\* insertSubmatrix: the loop over the rows ii..M.m-1 of the submatrix, which
\* stops with a TypeError at a row that this does not have
RECURSIVE InsertLoop(_, _, _, _, _)
InsertLoop(obj, i, j, sub, ii) ==
    IF ii >= M(sub) THEN Return(obj, "this")
    ELSE IF ii + i >= M(obj.rows) THEN Throw(obj, "TypeError")
    ELSE InsertLoop([obj EXCEPT !.rows[ii + i + 1] =
                                    Splice(@, j, N(sub), sub[ii + 1])],
                    i, j, sub, ii + 1)

\* An insertion that ends with this.invalidate()
insertSubmatrixInvalidating(obj, i, j, sub) ==
    [InsertLoop(obj, i, j, sub, 0) EXCEPT !.obj.cache = EmptyCache]

\* A.insertSubmatrix(i, j, M)
insertSubmatrix(obj, i, j, sub) == InsertLoop(obj, i, j, sub, 0)

\* A.add(other, factor)
add(obj, other, factor) ==
    IF M(obj.rows) # M(other) \/ N(obj.rows) # N(other)
    THEN Throw(obj, "Tried to add matrices of different sizes")
    ELSE Return([obj EXCEPT !.rows =
                    [i \in 1..Len(@) |-> VAdd(@[i], other[i], factor, 0)]],
                "this")

\* A.sub(other)
sub(obj, other) == add(obj, other, Num(-1))

\* A.scale(c)
scale(obj, c) ==
    Return([obj EXCEPT !.rows = [i \in 1..Len(@) |-> VScale(@[i], c, 0)]],
           "this")

\* A.rowScale(i, c, start)
rowScale(obj, i, c, start) ==
    Return([obj EXCEPT !.rows = RowScale(@, i, c, start)], "this")

\* A row replacement that passes no start on, so that whole rows are added
rowReplaceWhole(obj, i1, i2, c, start) ==
    Return([obj EXCEPT !.rows = RowReplace(@, i1, i2, c, 0)], "this")

\* A.rowReplace(i1, i2, c, start)
rowReplace(obj, i1, i2, c, start) ==
    Return([obj EXCEPT !.rows = RowReplace(@, i1, i2, c, start)], "this")

\* A.rowSwap(i1, i2)
rowSwap(obj, i1, i2) ==
    Return([obj EXCEPT !.rows = RowSwap(@, i1, i2)], "this")

-----------------------------------------------------------------------------
(* The Complex collaborator (complex.js), as section 6 of the specification *)
(* describes its interface: a pair of numbers [Re, Im].                     *)

\* new Complex(x), for a number x
CNum(x) == [Re |-> x, Im |-> Zero]
\* z.add(w)
CAdd(z, w) == [Re |-> RAdd(z.Re, w.Re), Im |-> RAdd(z.Im, w.Im)]
\* z.sub(w)
CSub(z, w) == [Re |-> RSub(z.Re, w.Re), Im |-> RSub(z.Im, w.Im)]
\* z.mult(w)
CMult(z, w) ==
    [Re |-> RSub(RMul(z.Re, w.Re), RMul(z.Im, w.Im)),
     Im |-> RAdd(RMul(z.Re, w.Im), RMul(z.Im, w.Re))]
\* z.sizesq
CSizesq(z) == RAdd(RMul(z.Re, z.Re), RMul(z.Im, z.Im))
\* z.recip(), for z # 0
CRecip(z) ==
    [Re |-> RDiv(z.Re, CSizesq(z)), Im |-> RNeg(RDiv(z.Im, CSizesq(z)))]
\* z.div(w), for w # 0
CDiv(z, w) == CMult(z, CRecip(w))
\* z.mult(-1)
CNeg(z) == [Re |-> RNeg(z.Re), Im |-> RNeg(z.Im)]

-----------------------------------------------------------------------------
(* Eigenspaces *)

\* The first key within eps of lambda, whatever its distance
RECURSIVE RealBestFirst(_, _, _, _, _)
RealBestFirst(entries, lambda, eps, k, best) ==
    IF k > Len(entries) THEN best
    ELSE IF ~Exceeds(RSub(entries[k][1], lambda), eps) /\ best = 0
         THEN RealBestFirst(entries, lambda, eps, k + 1, k)
         ELSE RealBestFirst(entries, lambda, eps, k + 1, best)

\* _realEigenspace, "Find best matching eigenvalue": the loop over the
\* entries k.. of the map; best is the index of the closest key so far
\* within eps (0 for none)
RECURSIVE RealBest(_, _, _, _, _)
RealBest(entries, lambda, eps, k, best) ==
    IF k > Len(entries) THEN best
    ELSE IF /\ ~Exceeds(RSub(entries[k][1], lambda), eps)
            /\ (best = 0 \/ RGt(RAbs(RSub(entries[best][1], lambda)),
                                 RAbs(RSub(entries[k][1], lambda))))
         THEN RealBest(entries, lambda, eps, k + 1, k)
         ELSE RealBest(entries, lambda, eps, k + 1, best)

\* The map this._cache.eigenspaces (or cplxEigenspaces), created when absent
MapOf(field) == IF field = <<>> THEN <<>> ELSE field[1]

\* The Subspace collaborator (subspace.js), constructed from a basis:
\* V.dim is the number of vectors, V.basis the matrix with these columns
SubspaceOf(basis, n) == [dim |-> Len(basis), basis |-> basis, n |-> n]

\* An eigenspace that is stored and returned even when its dimension is 0
RealEigenspaceStoreAny(obj, lambda, nb) ==
    Return([obj EXCEPT !.cache.eigenspaces =
                <<Append(MapOf(@),
                         <<lambda, SubspaceOf(nb.val, N(obj.rows))>>)>>],
           SubspaceOf(nb.val, N(obj.rows)))

\* _realEigenspace, the end: V is stored under lambda unless its dimension
\* is 0 (nb is the outcome of nullBasis on this.clone().sub(lambda I))
RealEigenspaceStore(obj, lambda, nb) ==
    IF Len(nb.val) = 0
    THEN Throw([obj EXCEPT !.cache.eigenspaces = <<MapOf(@)>>],
               "λ is not an eigenvalue of this matrix")
    ELSE Return([obj EXCEPT !.cache.eigenspaces =
                    <<Append(MapOf(@),
                             <<lambda, SubspaceOf(nb.val, N(obj.rows))>>)>>],
                SubspaceOf(nb.val, N(obj.rows)))

\* _realEigenspace, "Compute the eigenspace": the null space of
\* this.clone().sub(Matrix.identity(this.n, lambda)), s being the outcome of
\* sub
RealEigenspaceFrom(obj, lambda, s, eps) ==
    IF s.threw THEN Throw([obj EXCEPT !.cache.eigenspaces = <<MapOf(@)>>], s.val)
    ELSE RealEigenspaceStore(obj, lambda, nullBasis(s.obj, eps))

\* A._realEigenspace(lambda, eps)
realEigenspace(obj, lambda, eps) ==
    IF RealBest(MapOf(obj.cache.eigenspaces), lambda, eps, 1, 0) # 0
    THEN Return([obj EXCEPT !.cache.eigenspaces = <<MapOf(@)>>],
                MapOf(obj.cache.eigenspaces)
                    [RealBest(MapOf(obj.cache.eigenspaces), lambda, eps, 1, 0)][2])
    ELSE RealEigenspaceFrom(obj, lambda,
                            sub(Obj(obj.rows), Identity(N(obj.rows), lambda)),
                            eps)

\* _complexEigenspace, "Find best matching eigenvalue", as in RealBest with
\* the squared distance of the keys
RECURSIVE CplxBest(_, _, _, _, _)
CplxBest(entries, lambda, eps, k, best) ==
    IF k > Len(entries) THEN best
    ELSE IF /\ ~SizeExceeds(CSizesq(CSub(entries[k][1], lambda)), eps)
            /\ (best = 0 \/ RGt(CSizesq(CSub(entries[best][1], lambda)),
                                 CSizesq(CSub(entries[k][1], lambda))))
         THEN CplxBest(entries, lambda, eps, k + 1, k)
         ELSE CplxBest(entries, lambda, eps, k + 1, best)

\* _complexEigenspace: this with Complex entries, lambda subtracted from the
\* diagonal
CplxShifted(A, lambda) ==
    [i \in 1..M(A) |->
        [j \in 1..N(A) |->
            IF i = j THEN CSub(CNum(A[i][j]), lambda) ELSE CNum(A[i][j])]]

\* _complexEigenspace, "Find maximal pivot": the scan of rows i..m-1
RECURSIVE CplxMaxPivotRow(_, _, _, _)
CplxMaxPivotRow(U, curCol, i, row) ==
    IF i >= Len(U) THEN row
    ELSE IF RGt(CSizesq(U[i + 1][curCol + 1]), CSizesq(U[row + 1][curCol + 1]))
         THEN CplxMaxPivotRow(U, curCol, i + 1, i)
         ELSE CplxMaxPivotRow(U, curCol, i + 1, row)

\* _complexEigenspace, "Eliminate", on U whose rows were swapped already
CplxEliminate(st, curRow, curCol) ==
    LET l(i) == CNeg(CDiv(st.U[i][curCol + 1], st.U[curRow + 1][curCol + 1]))
    IN  [U |-> [i \in 1..Len(st.U) |->
                  IF i - 1 > curRow
                  THEN [j \in 1..Len(st.U[i]) |->
                          IF j - 1 = curCol THEN CNum(Zero)
                          ELSE IF j - 1 > curCol
                          THEN CAdd(st.U[i][j], CMult(st.U[curRow + 1][j], l(i)))
                          ELSE st.U[i][j]]
                  ELSE st.U[i]],
         pivots |-> Append(st.pivots, <<curRow, curCol>>)]

\* _complexEigenspace, "Clear the column so U is really upper-triangular"
CplxClear(st, curRow, curCol) ==
    [st EXCEPT !.U = [i \in 1..Len(@) |->
                        IF i - 1 >= curRow
                        THEN [@[i] EXCEPT ![curCol + 1] = CNum(Zero)]
                        ELSE @[i]]]

\* _complexEigenspace: the loop over the columns
RECURSIVE CplxLoop(_, _, _, _, _)
CplxLoop(st, curRow, curCol, n, eps) ==
    IF ~(curRow < Len(st.U) /\ curCol < n) THEN st
    ELSE IF SizeExceeds(
                CSizesq(st.U[CplxMaxPivotRow(st.U, curCol, curRow + 1, curRow) + 1]
                            [curCol + 1]), eps)
         THEN CplxLoop(CplxEliminate(
                          [st EXCEPT !.U = RowSwap(@,
                              CplxMaxPivotRow(st.U, curCol, curRow + 1, curRow),
                              curRow)],
                          curRow, curCol),
                       curRow + 1, curCol + 1, n, eps)
         ELSE CplxLoop(CplxClear(st, curRow, curCol), curRow, curCol + 1, n, eps)

\* _complexEigenspace, "Transform into rref", one pivot: the entries above
\* it are cleared, then its row is divided by it
CplxRrefPivot(U, row, col) ==
    LET l(i) == CNeg(CDiv(U[i][col + 1], U[row + 1][col + 1]))
    IN  [i \in 1..Len(U) |->
            [j \in 1..Len(U[i]) |->
                IF i - 1 < row
                THEN (IF j - 1 = col THEN CNum(Zero)
                      ELSE IF j - 1 > col
                      THEN CAdd(U[i][j], CMult(U[row + 1][j], l(i)))
                      ELSE U[i][j])
                ELSE IF i - 1 = row
                THEN (IF j - 1 = col THEN CNum(One)
                      ELSE IF j - 1 > col
                      THEN CMult(U[i][j], CRecip(U[row + 1][col + 1]))
                      ELSE U[i][j])
                ELSE U[i][j]]]

\* _complexEigenspace, "Transform into rref": the loop, last pivot first
RECURSIVE CplxRrefLoop(_, _, _)
CplxRrefLoop(U, pv, k) ==
    IF k < 0 THEN U
    ELSE CplxRrefLoop(CplxRrefPivot(U, pv[k + 1][1], pv[k + 1][2]), pv, k - 1)

\* _complexEigenspace, a free column j: the pair [Re_v, Im_v]
CplxFreeVector(U, previous, j, n) ==
    <<[c \in 1..n |->
        IF c = j + 1 THEN One
        ELSE IF \E k \in 1..Len(previous) : previous[k][2] = c - 1
             THEN LET k == CHOOSE k \in 1..Len(previous) : previous[k][2] = c - 1
                  IN  RNeg(U[previous[k][1] + 1][j + 1].Re)
             ELSE Zero],
      [c \in 1..n |->
        IF \E k \in 1..Len(previous) : previous[k][2] = c - 1
        THEN LET k == CHOOSE k \in 1..Len(previous) : previous[k][2] = c - 1
             IN  RNeg(U[previous[k][1] + 1][j + 1].Im)
        ELSE Zero]>>

\* _complexEigenspace, "Now extract the null basis": the loop over the
\* columns j..n-1, np pivots being shifted into previous
RECURSIVE CplxNullLoop(_, _, _, _, _, _)
CplxNullLoop(U, all, np, j, n, basis) ==
    IF j >= n THEN basis
    ELSE IF np < Len(all) /\ all[np + 1][2] = j
         THEN CplxNullLoop(U, all, np + 1, j + 1, n, basis)
         ELSE CplxNullLoop(U, all, np, j + 1, n,
                  Append(basis, CplxFreeVector(U, SubSeq(all, 1, np), j, n)))

\* _complexEigenspace, after the elimination st: an error when every column
\* has a pivot, else the basis, stored under lambda
CplxEigenspaceFrom(obj, lambda, st, n) ==
    IF Len(st.pivots) = n
    THEN Throw([obj EXCEPT !.cache.cplxEigenspaces = <<MapOf(@)>>],
               "λ is not an eigenvalue of this matrix")
    ELSE Return(
            [obj EXCEPT !.cache.cplxEigenspaces =
                <<Append(MapOf(@),
                    <<lambda,
                      CplxNullLoop(
                          CplxRrefLoop(st.U, st.pivots, Len(st.pivots) - 1),
                          st.pivots, 0, 0, n, <<>>)>>)>>],
            CplxNullLoop(CplxRrefLoop(st.U, st.pivots, Len(st.pivots) - 1),
                         st.pivots, 0, 0, n, <<>>))

\* A._complexEigenspace(lambda, eps), for m >= n
complexEigenspace(obj, lambda, eps) ==
    IF CplxBest(MapOf(obj.cache.cplxEigenspaces), lambda, eps, 1, 0) # 0
    THEN Return([obj EXCEPT !.cache.cplxEigenspaces = <<MapOf(@)>>],
                MapOf(obj.cache.cplxEigenspaces)
                    [CplxBest(MapOf(obj.cache.cplxEigenspaces),
                              lambda, eps, 1, 0)][2])
    ELSE CplxEigenspaceFrom(obj, lambda,
            CplxLoop([U |-> CplxShifted(obj.rows, lambda), pivots |-> <<>>],
                     0, 0, N(obj.rows), eps),
            N(obj.rows))

\* A.eigenspace(lambda, eps): lambda is a root, real or Complex
eigenspace(obj, lambda, eps) ==
    IF lambda.cplx /\ Exceeds(lambda.Im, eps)
    THEN complexEigenspace(obj, [Re |-> lambda.Re, Im |-> lambda.Im], eps)
    ELSE realEigenspace(obj, lambda.Re, eps)

-----------------------------------------------------------------------------
(* Diagonalization.  The value returned is Null or <<[C, D]>>; opts.ortho   *)
(* (orthonormal bases, which need square roots) is left at false.           *)

\* diagonalize: "Only use one of a conjugate pair of eigenvalues"
RECURSIVE OneOfPair(_, _)
OneOfPair(list, k) ==
    IF k > Len(list) THEN <<>>
    ELSE IF ~list[k][1].cplx \/ ~RGt(Zero, list[k][1].Im)
         THEN <<list[k]>> \o OneOfPair(list, k + 1)
         ELSE OneOfPair(list, k + 1)

\* The block of the conjugate: Matrix.create([Re, -Im], [Im, Re])
RotationBlockConjugate(lambda) ==
    <<<<lambda.Re, RNeg(lambda.Im)>>, <<lambda.Im, lambda.Re>>>>

\* Matrix.create([Re, Im], [-Im, Re])
RotationBlock(lambda) ==
    <<<<lambda.Re, lambda.Im>>, <<RNeg(lambda.Im), lambda.Re>>>>

\* diagonalize, complex case: the loop over j..mu-1, which pushes the pair
\* B[j] and inserts the block at (i, i) into D; d is the outcome of the
\* insertions so far on D
RECURSIVE DiagBlocks(_, _, _, _, _, _)
DiagBlocks(st, d, B, lambda, j, mu) ==
    IF d.threw THEN [st |-> st, threw |-> TRUE]
    ELSE IF j >= mu
         THEN [st |-> [st EXCEPT !.D = d.obj.rows], threw |-> FALSE]
         ELSE DiagBlocks([st EXCEPT !.i = @ + 2,
                                    !.eigenbasis = @ \o B[j + 1]],
                         insertSubmatrix(d.obj, st.i, st.i, RotationBlock(lambda)),
                         B, lambda, j + 1, mu)

\* diagonalize, real case: D[i][i] = lambda and eigenbasis[i] = B.col(j) for
\* j < mu, for i + mu <= n
DiagEntries(st, B, lambda, mu) ==
    [i |-> st.i + mu,
     eigenbasis |-> st.eigenbasis \o SubSeq(B, 1, mu),
     D |-> [r \in 1..Len(st.D) |->
              IF r - 1 >= st.i /\ r - 1 < st.i + mu
              THEN [st.D[r] EXCEPT ![r] = lambda]
              ELSE st.D[r]]]

\* diagonalize: the loop over the eigenvalues list[k..]; st is i, eigenbasis
\* and D, and e the outcome of this.eigenspace on list[k] (of no use when
\* block is off and list[k] Complex)
RECURSIVE DiagLoop(_, _, _, _, _, _)
DiagStep(obj, list, k, st, b, block, eps) ==
    IF b.threw THEN Throw(obj, "TypeError")
    ELSE DiagLoop(obj, list, k + 1, b.st, block, eps)

DiagWith(list, k, st, e, block, eps) ==
    IF list[k][1].cplx /\ ~block THEN Return(e.obj, Null)
    ELSE IF e.threw THEN e
    ELSE IF list[k][1].cplx /\ ~Exceeds(list[k][1].Im, eps)
         \* B is a Subspace: B.length is undefined and B[j] cannot be spread
         THEN Throw(e.obj, "TypeError")
    ELSE IF list[k][1].cplx
         THEN IF Len(e.val) < list[k][2] THEN Return(e.obj, Null)
              ELSE DiagStep(e.obj, list, k, st,
                            DiagBlocks(st, Return(Obj(st.D), "this"), e.val,
                                       list[k][1], 0, list[k][2]),
                            block, eps)
    ELSE IF e.val.dim < list[k][2] THEN Return(e.obj, Null)
    ELSE IF st.i + list[k][2] > Len(st.D) THEN Throw(e.obj, "TypeError")
    ELSE DiagLoop(e.obj, list, k + 1,
                  DiagEntries(st, e.val.basis, list[k][1].Re, list[k][2]),
                  block, eps)

DiagLoop(obj, list, k, st, block, eps) ==
    IF k > Len(list)
    THEN Return(obj, <<[C |-> Transpose(st.eigenbasis), D |-> st.D]>>)
    ELSE DiagWith(list, k, st,
                  IF list[k][1].cplx /\ ~block THEN Return(obj, Null)
                  ELSE eigenspace(obj, list[k][1], eps),
                  block, eps)

\* diagonalize, after this.eigenvalues(eps) with outcome ev
DiagFrom(ev, n, block, eps) ==
    IF ev.threw THEN ev
    ELSE DiagLoop(ev.obj, OneOfPair(ev.val, 1), 1,
                  [i |-> 0, eigenbasis |-> <<>>, D |-> ZeroMatrix(n, n)],
                  block, eps)

\* A.diagonalize({block, eps})
diagonalize(obj, block, eps) ==
    DiagFrom(eigenvalues(obj, eps), N(obj.rows), block, eps)

-----------------------------------------------------------------------------
(* The matrix under study: its rows, its cache, the outcome of the last     *)
(* call made on it and the number of calls made so far.                     *)

\* The entries a matrix is constructed from
Vals == {Num(-1), Zero, One}

\* Vectors of length k
Vectors(k) == [1..k -> Vals]

\* The entries of the matrices of Spec and of the larger square matrices
Bits == {Zero, One}

\* The shapes m x n of the constructed matrices: Matrix.create() is 0 x 0,
\* and rows of length 0 make an m x 0 matrix
Shapes ==
    {mn \in (0..MaxM) \X (0..MaxN) :
        mn[1] * mn[2] <= MaxCells /\ (mn[1] = 0 => mn[2] = 0)}

\* Matrix.create(...rows) with rows of equal length
Matrices == UNION {[1..mn[1] -> Vectors(mn[2])] : mn \in Shapes}

\* The 3 x 3 matrices
Squares == [1..3 -> Vectors(3)]

\* The tolerances passed by callers: 0, the default 1e-10, 1/2 and 1
Epsilons == {Tol(0, 1, 0), DefaultEps, Tol(1, 2, 0), Tol(1, 1, 0)}

\* The matrix as an object
this == [rows |-> rows, cache |-> cache]

\* The state after the call op(arg) with outcome r
Called(op, arg, r) ==
    /\ rows' = r.obj.rows
    /\ cache' = r.obj.cache
    /\ ret' = [op |-> op, arg |-> arg, val |-> r.val, threw |-> r.threw]
    /\ calls' = calls + 1
    /\ UNCHANGED <<heap, mats>>

\* The matrix constructed from the rows rs, no method called yet
Created(rs) ==
    /\ rows = rs
    /\ cache = EmptyCache
    /\ ret = [op |-> "create", arg |-> <<>>, val |-> <<>>, threw |-> FALSE]
    /\ calls = 0
    /\ heap = <<>>
    /\ mats = <<>>

\* No method has been called on the matrix
Fresh == calls = 0

-----------------------------------------------------------------------------
(* Specification SpecPLU: PLU(eps), once, on a constructed matrix *)

InitAll == \E rs \in Matrices \cup Squares : Created(rs)

FreshPLU ==
    /\ Fresh
    /\ \E eps \in Epsilons : Called("PLU", eps, PLU(this, eps))

NextPLU == FreshPLU

SpecPLU == InitAll /\ [][NextPLU]_vars

-----------------------------------------------------------------------------
(* Specification SpecQuery: one derived query at the default tolerance on   *)
(* a constructed matrix                                                     *)

FreshRank == Fresh /\ Called("rank", DefaultEps, rank(this, DefaultEps))

FreshNullity ==
    Fresh /\ Called("nullity", DefaultEps, nullity(this, DefaultEps))

FreshRref == Fresh /\ Called("rref", DefaultEps, rref(this, DefaultEps))

FreshRowOps == Fresh /\ Called("rowOps", DefaultEps, rowOps(this, DefaultEps))

FreshInverse ==
    Fresh /\ Called("inverse", DefaultEps, inverse(this, DefaultEps))

FreshNullBasis ==
    Fresh /\ Called("nullBasis", DefaultEps, nullBasis(this, DefaultEps))

FreshLeftNullBasis ==
    Fresh /\ Called("leftNullBasis", DefaultEps,
                    leftNullBasis(this, DefaultEps))

FreshQR == Fresh /\ Called("QR", DefaultEps, QR(this, DefaultEps))

NextQuery ==
    \/ FreshRank
    \/ FreshNullity
    \/ FreshRref
    \/ FreshRowOps
    \/ FreshInverse
    \/ FreshNullBasis
    \/ FreshLeftNullBasis
    \/ FreshQR

SpecQuery == InitAll /\ [][NextQuery]_vars

-----------------------------------------------------------------------------
(* Specification SpecSolve: one solve(b) or solveLeastSquares(b) at the     *)
(* default tolerance on a constructed matrix                                *)

InitSolve == \E rs \in Matrices : Created(rs)

FreshSolve ==
    /\ Fresh
    /\ \E b \in Vectors(M(rows)) :
          Called("solve", b, solve(this, b, DefaultEps))

FreshSolveLeastSquares ==
    /\ Fresh
    /\ \E b \in Vectors(M(rows)) :
          Called("solveLeastSquares", b, solveLeastSquares(this, b, DefaultEps))

NextSolve == FreshSolve \/ FreshSolveLeastSquares

SpecSolve == InitSolve /\ [][NextSolve]_vars

-----------------------------------------------------------------------------
(* Specification SpecEchelon: one echelon test, at any tolerance, on a      *)
(* constructed matrix                                                       *)

FreshIsEchelon ==
    /\ Fresh
    /\ \E eps \in Epsilons :
          Called("isEchelon", eps, Return(this, isEchelon(rows, eps)))

FreshIsRREF ==
    /\ Fresh
    /\ \E eps \in Epsilons :
          Called("isRREF", eps, Return(this, isRREF(rows, eps)))

NextEchelon == FreshIsEchelon \/ FreshIsRREF

SpecEchelon == InitAll /\ [][NextEchelon]_vars

-----------------------------------------------------------------------------
(* Specification SpecDet: det or charpoly, once, on a square matrix of      *)
(* integers of size 0 to 4                                                  *)

\* The rows of the 4 x 4 matrices
QuadRows ==
    {<<One, Zero, Zero, Zero>>, <<One, One, Zero, Num(-1)>>,
     <<Zero, Num(-1), One, Zero>>, <<Zero, Zero, One, One>>,
     <<Num(-1), Zero, Num(2), One>>}

\* The matrix of the documentation of det and charpoly
Example ==
    <<<<One, Num(6), Num(4)>>, <<Num(2), Num(-1), Num(3)>>,
      <<Num(5), Zero, One>>>>

\* The square matrices: all of size 0 to 3 over Vals, some of size 4, and
\* the example
SquaresToFour ==
    UNION {[1..k -> Vectors(k)] : k \in 0..3}
        \cup [1..4 -> QuadRows] \cup {Example}

InitDet == \E rs \in SquaresToFour : Created(rs)

FreshDet == Fresh /\ Called("det", <<>>, det(this))

FreshCharpoly == Fresh /\ Called("charpoly", <<>>, charpoly(this))

NextDet == FreshDet \/ FreshCharpoly

SpecDet == InitDet /\ [][NextDet]_vars

-----------------------------------------------------------------------------
(* Specification SpecCache: a matrix is constructed, then queried at        *)
(* several tolerances, hinted and invalidated, up to MaxCalls calls; its    *)
(* entries are never modified.                                              *)

\* The tolerances of the queries: the default 1e-10, and 1
CacheEps == {DefaultEps, Tol(1, 1, 0)}

\* The matrices queried: those of 1 or 2 rows and 1 or 2 columns over Bits,
\* two of 3 x 2, one of 2 x 3, Matrix.create() and the 5 x 5 identity
CacheMatrices ==
    UNION {[1..m -> [1..n -> Bits]] : m \in 1..2, n \in 1..2}
        \cup {<<<<One, Zero>>, <<Zero, One>>, <<One, One>>>>,
              <<<<One, One>>, <<One, One>>, <<Zero, Zero>>>>,
              <<<<One, Zero, One>>, <<Zero, One, One>>>>,
              <<>>, Identity(5, One)}

\* The lists passed to hintEigenvalues
Hints ==
    {<<>>, <<<<Real(One), 2>>>>, <<<<Real(Zero), 1>>, <<Real(Num(2)), 1>>>>,
     <<<<Complex(Zero, One), 1>>, <<Complex(Zero, Num(-1)), 1>>>>}

\* factor can be followed on the characteristic polynomial of rs
Factorable(rs) ==
    (M(rs) = N(rs) /\ N(rs) <= 4) =>
        Splits(CharpolySigned(CharpolyMonic(rs), N(rs)))

InitCache == \E rs \in CacheMatrices : Factorable(rs) /\ Created(rs)

\* A further call can be made
More == calls < MaxCalls

QTranspose == More /\ Called("transpose", <<>>, transpose(this))

QNormal == More /\ Called("normal", <<>>, normal(this))

QCharpoly == More /\ Called("charpoly", <<>>, charpoly(this))

QDet == More /\ Called("det", <<>>, det(this))

QTrace == More /\ Called("trace", <<>>, trace(this))

QPLU == More /\ \E eps \in CacheEps : Called("PLU", eps, PLU(this, eps))

QRank == More /\ \E eps \in CacheEps : Called("rank", eps, rank(this, eps))

QRref == More /\ \E eps \in CacheEps : Called("rref", eps, rref(this, eps))

QRowOps ==
    More /\ \E eps \in CacheEps : Called("rowOps", eps, rowOps(this, eps))

QNullBasis ==
    More /\ \E eps \in CacheEps :
                Called("nullBasis", eps, nullBasis(this, eps))

QColBasis ==
    More /\ \E eps \in CacheEps : Called("colBasis", eps, colBasis(this, eps))

QRowBasis ==
    More /\ \E eps \in CacheEps : Called("rowBasis", eps, rowBasis(this, eps))

QLeftNullBasis ==
    More /\ \E eps \in CacheEps :
                Called("leftNullBasis", eps, leftNullBasis(this, eps))

QQR == More /\ \E eps \in CacheEps : Called("QR", eps, QR(this, eps))

QEigenvalues ==
    More /\ \E eps \in CacheEps :
                Called("eigenvalues", eps, eigenvalues(this, eps))

QHintEigenvalues ==
    More /\ \E hinted \in Hints :
                Called("hintEigenvalues", hinted, hintEigenvalues(this, hinted))

QIsFullRowRank ==
    More /\ \E eps \in CacheEps :
                Called("isFullRowRank", eps, isFullRowRank(this, eps))

QIsFullColRank ==
    More /\ \E eps \in CacheEps :
                Called("isFullColRank", eps, isFullColRank(this, eps))

QInverse ==
    More /\ \E eps \in CacheEps : Called("inverse", eps, inverse(this, eps))

QInvalidate == More /\ Called("invalidate", <<>>, invalidate(this))

NextCache ==
    \/ QTranspose
    \/ QNormal
    \/ QCharpoly
    \/ QDet
    \/ QTrace
    \/ QPLU
    \/ QRank
    \/ QRref
    \/ QRowOps
    \/ QNullBasis
    \/ QColBasis
    \/ QRowBasis
    \/ QLeftNullBasis
    \/ QQR
    \/ QEigenvalues
    \/ QHintEigenvalues
    \/ QIsFullRowRank
    \/ QIsFullColRank
    \/ QInverse
    \/ QInvalidate

SpecCache == InitCache /\ [][NextCache]_vars

-----------------------------------------------------------------------------
(* Specification SpecDiag: a square matrix is constructed, its eigenvalues  *)
(* are hinted or not, and it is diagonalized at the default tolerance, up   *)
(* to MaxCalls calls.                                                       *)

\* The square matrices diagonalized: those of size 0 to 2 over Vals, and of
\* size 3 and 4 a Jordan block beside another eigenvalue, a rotation beside
\* an eigenvalue, a diagonal matrix and a rotation repeated in a Jordan block
DiagMatrices ==
    UNION {[1..k -> Vectors(k)] : k \in 0..2}
        \cup {<<<<One, One, Zero>>, <<Zero, One, Zero>>, <<Zero, Zero, Num(2)>>>>,
              <<<<Zero, One, Zero>>, <<Num(-1), Zero, Zero>>, <<Zero, Zero, One>>>>,
              <<<<One, Zero, Zero>>, <<Zero, One, Zero>>, <<Zero, Zero, Num(2)>>>>,
              <<<<Zero, One, One, Zero>>, <<Num(-1), Zero, Zero, One>>,
                <<Zero, Zero, Zero, One>>, <<Zero, Zero, Num(-1), Zero>>>>}

\* The lists passed to hintEigenvalues before a diagonalization
DiagHints ==
    {<<>>, <<<<Real(One), 1>>>>, <<<<Real(One), 2>>>>,
     <<<<Real(Zero), 1>>, <<Real(One), 1>>>>,
     <<<<Real(One), 1>>, <<Real(Num(2)), 1>>>>,
     <<<<Complex(Zero, One), 1>>, <<Complex(Zero, Num(-1)), 1>>>>,
     <<<<Complex(One, One), 1>>, <<Complex(One, Num(-1)), 1>>>>,
     <<<<Complex(Zero, One), 2>>, <<Complex(Zero, Num(-1)), 2>>>>}

\* The sum of the multiplicities of the list
RECURSIVE Weight(_)
Weight(list) == IF list = <<>> THEN 0 ELSE list[1][2] + Weight(Tail(list))

InitDiag == \E rs \in DiagMatrices : Factorable(rs) /\ Created(rs)

\* hintEigenvalues with a list that has no more eigenvalues, counted with
\* multiplicity, than the matrix has columns
DHintEigenvalues ==
    /\ More
    /\ \E hinted \in DiagHints :
          /\ Weight(hinted) <= N(rows)
          /\ Called("hintEigenvalues", hinted, hintEigenvalues(this, hinted))

DDiagonalize ==
    /\ More
    /\ \E block \in BOOLEAN :
          Called("diagonalize", block, diagonalize(this, block, DefaultEps))

DInvalidate == More /\ Called("invalidate", <<>>, invalidate(this))

NextDiag == DHintEigenvalues \/ DDiagonalize \/ DInvalidate

SpecDiag == InitDiag /\ [][NextDiag]_vars

-----------------------------------------------------------------------------
(* Specification Spec: a matrix is constructed, then mutated in place,      *)
(* queried and invalidated, up to MaxCalls calls.                           *)

\* The argument lists of Matrix.create(...rows): up to two rows of up to two
\* entries each, of equal length or not
RowLists ==
    UNION {[1..m -> UNION {[1..k -> Bits] : k \in 0..2}] : m \in 0..2}

\* Matrix.create(...rows) returned a matrix
Init == \E rs \in RowLists : ~CreateThrows(rs) /\ Created(rs)

\* The factors passed to the mutators
Factors == {Zero, Num(2)}

\* The methods that change a matrix in place
Mutators ==
    {"rowScale", "rowReplace", "rowSwap", "add", "scale", "insertSubmatrix"}

\* The matrices passed to insertSubmatrix, add and sub: all entries 1
Subs ==
    {<<<<One>>>>, <<<<One, One>>>>, <<<<One>>, <<One>>>>,
     <<<<One, One>>, <<One, One>>>>}

\* All rows have the length n
WellFormed == \A i \in 1..M(rows) : Len(rows[i]) = N(rows)

\* A call can be made: the budget of calls is not used up, and the rows are
\* of one length (no method is followed on a matrix whose rows are not)
Live == calls < MaxCalls /\ WellFormed

DoRowScale ==
    /\ Live
    /\ \E i \in 0..(M(rows) - 1) : \E c \in Factors : \E start \in 0..N(rows) :
          Called("rowScale", <<i, c, start>>, rowScale(this, i, c, start))

DoRowReplace ==
    /\ Live
    /\ \E i1, i2 \in 0..(M(rows) - 1) : \E c \in Factors :
       \E start \in 0..N(rows) :
          Called("rowReplace", <<i1, i2, c, start>>,
                 rowReplace(this, i1, i2, c, start))

DoRowSwap ==
    /\ Live
    /\ \E i1, i2 \in 0..(M(rows) - 1) :
          Called("rowSwap", <<i1, i2>>, rowSwap(this, i1, i2))

DoAdd ==
    /\ Live
    /\ \E other \in Subs : \E factor \in Factors :
          Called("add", <<other, factor>>, add(this, other, factor))

DoSub ==
    /\ Live
    /\ \E other \in Subs : Called("sub", <<other>>, sub(this, other))

DoScale ==
    /\ Live
    /\ \E c \in Factors : Called("scale", <<c>>, scale(this, c))

DoInsertSubmatrix ==
    /\ Live
    /\ \E i \in 0..1 : \E j \in 0..2 : \E S \in Subs :
          Called("insertSubmatrix", <<i, j, S>>,
                 insertSubmatrix(this, i, j, S))

DoInvalidate == Live /\ Called("invalidate", <<>>, invalidate(this))

DoTranspose == Live /\ Called("transpose", <<>>, transpose(this))

DoPLU == Live /\ Called("PLU", DefaultEps, PLU(this, DefaultEps))

DoRank == Live /\ Called("rank", DefaultEps, rank(this, DefaultEps))

DoRref == Live /\ Called("rref", DefaultEps, rref(this, DefaultEps))

Next ==
    \/ DoRowScale
    \/ DoRowReplace
    \/ DoRowSwap
    \/ DoAdd
    \/ DoSub
    \/ DoScale
    \/ DoInsertSubmatrix
    \/ DoInvalidate
    \/ DoTranspose
    \/ DoPLU
    \/ DoRank
    \/ DoRref

Spec == Init /\ [][Next]_vars

-----------------------------------------------------------------------------
(* Specification SpecEigen: a square matrix is constructed and its          *)
(* eigenspaces are asked for, with real and Complex values and with two     *)
(* tolerances, up to MaxLookups calls.                                      *)

\* The number of calls of eigenspace: two of them fill the cache before a
\* third one chooses between the keys
MaxLookups == MaxCalls + 1

\* The square matrices whose eigenspaces are asked for
EigenMatrices == UNION {[1..k -> Vectors(k)] : k \in 0..2}

\* The values lambda passed to eigenspace
Lambdas == {Real(Zero), Real(One), Real(Num(2)), Complex(One, One)}

InitEigen == \E rs \in EigenMatrices : Created(rs)

EEigenspace ==
    /\ calls < MaxLookups
    /\ \E lambda \in Lambdas, eps \in CacheEps :
          Called("eigenspace", <<lambda, eps>>, eigenspace(this, lambda, eps))

NextEigen == EEigenspace

SpecEigen == InitEigen /\ [][NextEigen]_vars

-----------------------------------------------------------------------------
(* Specification SpecInvalidate: a matrix is constructed and queried once,  *)
(* then mutated in place up to MaxCalls times, then invalidated, then       *)
(* queried once more.                                                       *)

\* The derived queries made, at the default tolerance
Queries ==
    {"rank", "PLU", "rref", "rowOps", "nullBasis", "transpose", "normal",
     "charpoly", "det", "solve"}

\* The vector b of solve(b): all entries 1
Ones(m) == [i \in 1..m |-> One]

\* The outcome of the query q on the matrix obj
Derive(obj, q) ==
    CASE q = "rank" -> rank(obj, DefaultEps)
      [] q = "PLU" -> PLU(obj, DefaultEps)
      [] q = "rref" -> rref(obj, DefaultEps)
      [] q = "rowOps" -> rowOps(obj, DefaultEps)
      [] q = "nullBasis" -> nullBasis(obj, DefaultEps)
      [] q = "transpose" -> transpose(obj)
      [] q = "normal" -> normal(obj)
      [] q = "charpoly" -> charpoly(obj)
      [] q = "det" -> det(obj)
      [] q = "solve" -> solve(obj, Ones(M(obj.rows)), DefaultEps)

\* The first query, on the constructed matrix
IQueryFirst ==
    /\ Fresh
    /\ \E q \in Queries : Called(q, <<>>, Derive(this, q))

\* A mutation can be made: a query was made, the matrix is not invalidated
\* yet, and the budget of mutations is not used up
Mutable ==
    /\ calls >= 1 /\ calls <= MaxCalls
    /\ ret.op \in Queries \/ ret.op \in Mutators
    /\ WellFormed

IRowScale ==
    /\ Mutable
    /\ \E i \in 0..(M(rows) - 1) : \E c \in Factors :
          Called("rowScale", <<i, c, 0>>, rowScale(this, i, c, 0))

IRowReplace ==
    /\ Mutable
    /\ \E i1, i2 \in 0..(M(rows) - 1) :
          Called("rowReplace", <<i1, i2, One, 0>>,
                 rowReplace(this, i1, i2, One, 0))

IRowSwap ==
    /\ Mutable
    /\ \E i1, i2 \in 0..(M(rows) - 1) :
          i1 < i2 /\ Called("rowSwap", <<i1, i2>>, rowSwap(this, i1, i2))

IAdd ==
    /\ Mutable
    /\ \E other \in Subs : Called("add", <<other, One>>, add(this, other, One))

IScale ==
    /\ Mutable
    /\ \E c \in Factors : Called("scale", <<c>>, scale(this, c))

IInsertSubmatrix ==
    /\ Mutable
    /\ \E i, j \in 0..1 : \E S \in Subs :
          Called("insertSubmatrix", <<i, j, S>>,
                 insertSubmatrix(this, i, j, S))

\* invalidate(), after the mutations
IInvalidate ==
    /\ ret.op \in Mutators
    /\ WellFormed
    /\ Called("invalidate", <<>>, invalidate(this))

\* A query on the invalidated matrix
IQueryAgain ==
    /\ ret.op = "invalidate"
    /\ \E q \in Queries : Called(q, <<>>, Derive(this, q))

NextInvalidate ==
    \/ IQueryFirst
    \/ IRowScale
    \/ IRowReplace
    \/ IRowSwap
    \/ IAdd
    \/ IScale
    \/ IInsertSubmatrix
    \/ IInvalidate
    \/ IQueryAgain

SpecInvalidate == Init /\ [][NextInvalidate]_vars

-----------------------------------------------------------------------------
(* Objects.  A Matrix is an Array of references to Vector objects, and the  *)
(* caller holds Vectors and Arrays of its own: heap[r] is the object with   *)
(* the reference r, mats[a] is the a-th Matrix constructed.  The            *)
(* specifications above follow one matrix built from arrays, whose rows     *)
(* nothing else refers to, and leave heap and mats empty.                   *)

\* A Vector or an Array the caller made, with the entries v
HeldObj(kind, v) == [kind |-> kind, held |-> TRUE, val |-> v]

\* A Vector made for a row of a Matrix
RowObj(v) == [kind |-> "Vector", held |-> FALSE, val |-> v]

\* The Matrix with the rows refs, made by create(...args) or otherwise
\* (args empty); its cached transpose is absent
MatrixObj(refs, args) == [rows |-> refs, from |-> args, transpose |-> <<>>]

\* The heap h and the matrices ms after a call that returned val
Returned(h, ms, val) == [heap |-> h, mats |-> ms, val |-> val, threw |-> FALSE]

\* The heap h and the matrices ms after a call that threw msg
Thrown(h, ms, msg) == [heap |-> h, mats |-> ms, val |-> msg, threw |-> TRUE]

\* The matrix m read as rows of numbers
Entries(h, m) == [i \in 1..Len(m.rows) |-> h[m.rows[i]].val]

\* Matrix.from(..., row => a new Vector): a new Matrix whose rows are new
\* Vectors with the entries rs
MatrixFrom(st, rs) ==
    Returned(st.heap \o [k \in 1..Len(rs) |-> RowObj(rs[k])],
             Append(st.mats,
                    MatrixObj([k \in 1..Len(rs) |-> Len(st.heap) + k], <<>>)),
             Len(st.mats) + 1)

\* row instanceof Vector
IsVector(h, r) == h[r].kind = "Vector"

\* The arguments of create that are not Vectors, in order
Promoted(h, args) == SelectSeq(args, LAMBDA r : ~IsVector(h, r))

\* row instanceof Vector ? row : Vector.from(row), for every argument: a
\* Vector is kept as the row, an Array is copied into a new Vector
CreateRows(h, args) ==
    [k \in 1..Len(args) |->
        IF IsVector(h, args[k]) THEN args[k]
        ELSE Len(h) + Len(Promoted(h, SubSeq(args, 1, k)))]

\* Matrix.create(...rows), the rows given by their references
ObjCreate(st, args) ==
    LET arrays == Promoted(st.heap, args)
        h == st.heap \o [k \in 1..Len(arrays) |-> RowObj(st.heap[arrays[k]].val)]
    IN  IF \E k \in 1..Len(args) :
                Len(h[args[k]].val) # Len(h[args[1]].val)
        THEN Thrown(h, st.mats, "Matrix rows must have the same length.")
        ELSE Returned(h,
                      Append(st.mats,
                             MatrixObj(CreateRows(st.heap, args), args)),
                      Len(st.mats) + 1)

\* Matrix.identity(n, lambda)
ObjIdentity(st, n, lambda) == MatrixFrom(st, Identity(n, lambda))

\* Matrix.zero(m, n)
ObjZero(st, m, n) == MatrixFrom(st, ZeroMatrix(m, n))

\* Matrix.permutation(vals)
ObjPermutation(st, vals) == MatrixFrom(st, Permutation(vals))

\* A.clone()
ObjClone(st, a) == MatrixFrom(st, Entries(st.heap, st.mats[a]))

\* get transpose: the cached Matrix, or a new one that is cached
ObjTranspose(st, a) ==
    IF st.mats[a].transpose # <<>>
    THEN Returned(st.heap, st.mats, st.mats[a].transpose[1])
    ELSE LET r == MatrixFrom(st, Transpose(Entries(st.heap, st.mats[a])))
         IN  [r EXCEPT !.mats[a].transpose = <<r.val>>]

\* A.mult(B)
ObjMult(st, a, b) ==
    LET A == Entries(st.heap, st.mats[a])
        B == Entries(st.heap, st.mats[b])
    IN  IF M(B) # N(A)
        THEN Thrown(st.heap, st.mats,
                    "Cannot multiply matrices of incompatible dimensions")
        ELSE MatrixFrom(st, Mult(A, B))

\* A.rowScale(i, c, start): this[i].scale(c, start)
ObjRowScale(st, a, i, c, start) ==
    Returned([st.heap EXCEPT ![st.mats[a].rows[i + 1]].val =
                                 VScale(@, c, start)],
             st.mats, a)

\* A.rowReplace(i1, i2, c, start): this[i1].add(this[i2], c, start)
ObjRowReplace(st, a, i1, i2, c, start) ==
    Returned([st.heap EXCEPT ![st.mats[a].rows[i1 + 1]].val =
                 VAdd(@, st.heap[st.mats[a].rows[i2 + 1]].val, c, start)],
             st.mats, a)

\* A.rowSwap(i1, i2): the two references change places
ObjRowSwap(st, a, i1, i2) ==
    Returned(st.heap,
             [st.mats EXCEPT ![a].rows = RowSwap(@, i1, i2)],
             a)

\* add: this.forEach((row, i) => row.add(other[i], factor)), from row i on
RECURSIVE ObjAddLoop(_, _, _, _, _)
ObjAddLoop(h, ra, rb, factor, i) ==
    IF i >= Len(ra) THEN h
    ELSE ObjAddLoop([h EXCEPT ![ra[i + 1]].val =
                                 VAdd(@, h[rb[i + 1]].val, factor, 0)],
                    ra, rb, factor, i + 1)

\* A.add(other, factor)
ObjAdd(st, a, b, factor) ==
    LET A == Entries(st.heap, st.mats[a])
        B == Entries(st.heap, st.mats[b])
    IN  IF M(A) # M(B) \/ N(A) # N(B)
        THEN Thrown(st.heap, st.mats,
                    "Tried to add matrices of different sizes")
        ELSE Returned(ObjAddLoop(st.heap, st.mats[a].rows, st.mats[b].rows,
                                 factor, 0),
                      st.mats, a)

\* scale: this.forEach(row => row.scale(c)), from row i on
RECURSIVE ObjScaleLoop(_, _, _, _)
ObjScaleLoop(h, ra, c, i) ==
    IF i >= Len(ra) THEN h
    ELSE ObjScaleLoop([h EXCEPT ![ra[i + 1]].val = VScale(@, c, 0)],
                      ra, c, i + 1)

\* A.scale(c)
ObjScale(st, a, c) ==
    Returned(ObjScaleLoop(st.heap, st.mats[a].rows, c, 0), st.mats, a)

\* insertSubmatrix: this[ii+i].splice(j, M.n, ...M[ii]) from row ii on,
\* which stops with a TypeError at a row that this does not have
RECURSIVE ObjInsertLoop(_, _, _, _, _, _)
ObjInsertLoop(st, a, i, j, b, ii) ==
    LET ra == st.mats[a].rows
        rb == st.mats[b].rows
    IN  IF ii >= Len(rb) THEN Returned(st.heap, st.mats, a)
        ELSE IF ii + i >= Len(ra) THEN Thrown(st.heap, st.mats, "TypeError")
        ELSE ObjInsertLoop(
                [st EXCEPT !.heap[ra[ii + i + 1]].val =
                    Splice(@, j, Len(st.heap[rb[1]].val),
                           st.heap[rb[ii + 1]].val)],
                a, i, j, b, ii + 1)

\* A.insertSubmatrix(i, j, M)
ObjInsertSubmatrix(st, a, i, j, b) == ObjInsertLoop(st, a, i, j, b, 0)

\* v.scale(c) on a Vector of the caller
ObjVectorScale(st, r, c) ==
    Returned([st.heap EXCEPT ![r].val = VScale(@, c, 0)], st.mats, r)

-----------------------------------------------------------------------------
(* Specification SpecAlias: the caller holds two rows of numbers, each a    *)
(* Vector or an Array, and has constructed a matrix from them; further      *)
(* matrices are constructed, up to MaxMats, and matrices and Vectors are    *)
(* mutated in place, up to MaxCalls calls.                                  *)

\* The rows of numbers of the caller
HeldRows == [1..2 -> Bits] \ {VZero(2)}

\* Vector.create(...) or an array literal
Kinds == {"Vector", "Array"}

\* The argument lists of Matrix.create: one or two of the caller's rows
ArgLists == UNION {[1..k -> 1..2] : k \in 1..2}

\* The heap and the matrices as one value
objects == [heap |-> heap, mats |-> mats]

\* The state after the call op(arg) with outcome r
ObjCalled(op, arg, r) ==
    /\ heap' = r.heap
    /\ mats' = r.mats
    /\ ret' = [op |-> op, arg |-> arg, val |-> r.val, threw |-> r.threw]
    /\ calls' = calls + 1
    /\ UNCHANGED <<rows, cache>>

InitAlias ==
    /\ rows = <<>>
    /\ cache = EmptyCache
    /\ calls = 0
    /\ \E k1, k2 \in Kinds : \E v1, v2 \in HeldRows : \E args \in ArgLists :
          LET held == <<HeldObj(k1, v1), HeldObj(k2, v2)>>
              r == ObjCreate([heap |-> held, mats |-> <<>>], args)
          IN  /\ heap = r.heap
              /\ mats = r.mats
              /\ ret = [op |-> "create", arg |-> args, val |-> r.val,
                        threw |-> r.threw]

\* A further matrix can be constructed
Room == More /\ Len(mats) < MaxMats

ACreate ==
    /\ Room
    /\ \E args \in ArgLists : ObjCalled("create", args, ObjCreate(objects, args))

AIdentity == Room /\ ObjCalled("identity", <<2>>, ObjIdentity(objects, 2, One))

AZero == Room /\ ObjCalled("zero", <<2, 2>>, ObjZero(objects, 2, 2))

APermutation ==
    Room /\ ObjCalled("permutation", <<<<1, 0>>>>,
                      ObjPermutation(objects, <<1, 0>>))

AClone ==
    /\ Room
    /\ \E a \in 1..Len(mats) : ObjCalled("clone", <<a>>, ObjClone(objects, a))

ATranspose ==
    /\ Room
    /\ \E a \in 1..Len(mats) :
          ObjCalled("transpose", <<a>>, ObjTranspose(objects, a))

AMult ==
    /\ Room
    /\ \E a, b \in 1..Len(mats) :
          ObjCalled("mult", <<a, b>>, ObjMult(objects, a, b))

ARowScale ==
    /\ More
    /\ \E a \in 1..Len(mats) : \E i \in 0..(Len(mats[a].rows) - 1) :
          ObjCalled("rowScale", <<a, i, Num(2), 0>>,
                    ObjRowScale(objects, a, i, Num(2), 0))

ARowReplace ==
    /\ More
    /\ \E a \in 1..Len(mats) : \E i1, i2 \in 0..(Len(mats[a].rows) - 1) :
          ObjCalled("rowReplace", <<a, i1, i2, Num(2), 0>>,
                    ObjRowReplace(objects, a, i1, i2, Num(2), 0))

ARowSwap ==
    /\ More
    /\ \E a \in 1..Len(mats) : \E i1, i2 \in 0..(Len(mats[a].rows) - 1) :
          /\ i1 < i2
          /\ ObjCalled("rowSwap", <<a, i1, i2>>, ObjRowSwap(objects, a, i1, i2))

AAdd ==
    /\ More
    /\ \E a, b \in 1..Len(mats) :
          ObjCalled("add", <<a, b, One>>, ObjAdd(objects, a, b, One))

AScale ==
    /\ More
    /\ \E a \in 1..Len(mats) :
          ObjCalled("scale", <<a, Num(2)>>, ObjScale(objects, a, Num(2)))

\* insertSubmatrix with a submatrix that fits at (i, j)
AInsertSubmatrix ==
    /\ More
    /\ \E a, b \in 1..Len(mats) : \E i, j \in 0..1 :
          /\ i + M(Entries(heap, mats[b])) <= M(Entries(heap, mats[a]))
          /\ j + N(Entries(heap, mats[b])) <= N(Entries(heap, mats[a]))
          /\ ObjCalled("insertSubmatrix", <<a, i, j, b>>,
                       ObjInsertSubmatrix(objects, a, i, j, b))

\* The caller scales a Vector of its own
AVectorScale ==
    /\ More
    /\ \E r \in 1..Len(heap) :
          /\ heap[r].held /\ IsVector(heap, r)
          /\ ObjCalled("Vector.scale", <<r, Num(2)>>,
                       ObjVectorScale(objects, r, Num(2)))

NextAlias ==
    \/ ACreate
    \/ AIdentity
    \/ AZero
    \/ APermutation
    \/ AClone
    \/ ATranspose
    \/ AMult
    \/ ARowScale
    \/ ARowReplace
    \/ ARowSwap
    \/ AAdd
    \/ AScale
    \/ AInsertSubmatrix
    \/ AVectorScale

SpecAlias == InitAlias /\ [][NextAlias]_vars

-----------------------------------------------------------------------------
(* Properties.  Exact determinants and ranks, computed from minors and not  *)
(* by elimination, say what "invertible", "rank" and "solvable" mean.       *)

NoTol == Tol(0, 1, 0)

\* A without row i and column j (1-based)
Minor(A, i, j) ==
    [r \in 1..(Len(A) - 1) |->
        [c \in 1..(Len(A) - 1) |->
            A[IF r < i THEN r ELSE r + 1][IF c < j THEN c ELSE c + 1]]]

\* the determinant of a square matrix, expanded along the first row
RECURSIVE Det(_)
Det(A) ==
    IF Len(A) = 0 THEN One
    ELSE RSum([j \in 1..Len(A) |->
                 RMul(IF j % 2 = 1 THEN A[1][j] ELSE RNeg(A[1][j]),
                      Det(Minor(A, 1, j)))],
              Len(A))

\* the increasing choices of k indices among 1..n
Increasing(k, n) ==
    {s \in [1..k -> 1..n] : \A a, b \in 1..k : a < b => s[a] < s[b]}

\* A has a nonzero k x k minor
HasMinor(A, k) ==
    \E r \in Increasing(k, M(A)) : \E c \in Increasing(k, N(A)) :
        Det([a \in 1..k |-> [b \in 1..k |-> A[r[a]][c[b]]]]) # Zero

\* the rank of A: the size of its largest nonzero minor
MinorRank(A) ==
    CHOOSE k \in 0..M(A) :
        /\ k <= N(A)
        /\ HasMinor(A, k)
        /\ \A h \in (k + 1)..M(A) : ~(h <= N(A) /\ HasMinor(A, h))

\* the outcome of the last call, when it was PLU
F == ret.val

\* C1: after A.PLU() at the default tolerance, row i of P.A is row P[i] of
\* A, and P.A equals L.U; L is m x m and U is m x n.
PAEqualsLU ==
    (ret.op = "PLU" /\ ret.arg = DefaultEps) =>
        /\ ~ret.threw
        /\ M(F.L) = M(rows) /\ N(F.L) = M(rows)
        /\ M(F.U) = M(rows) /\ N(F.U) = N(rows)
        /\ [i \in 1..M(rows) |-> rows[F.P[i] + 1]] = Mult(F.L, F.U)

\* C1, a case: a matrix of three rows, not of full rank, whose rows were
\* exchanged twice, with a multiplier other than 0 in L
PAEqualsLUCase ==
    /\ ret.op = "PLU" /\ ret.arg = DefaultEps
    /\ M(rows) = 3
    /\ F.signP = 1 /\ F.P # <<0, 1, 2>>
    /\ Len(F.pivots) = 2
    /\ F.L # Identity(3, One)

\* C2: A.rref() passes isRREF(0): its leading entries are in the consecutive
\* rows 0..r-1, in strictly increasing columns, each is exactly 1, and every
\* entry above one is exactly 0.
RrefIsRREF ==
    (ret.op = "rref") =>
        LET R == ret.val
            le == leadingEntries(R, NoTol)
        IN  /\ ~ret.threw
            /\ isRREF(R, NoTol)
            /\ \A k \in 1..Len(le) :
                  /\ le[k][1] = k - 1
                  /\ k > 1 => le[k][2] > le[k - 1][2]
                  /\ R[le[k][1] + 1][le[k][2] + 1] = One
                  /\ \A i \in 1..le[k][1] : R[i][le[k][2] + 1] = Zero

\* C2, a case: two pivots or more, a free column before the second pivot
\* with an entry other than 0 in the first row, and a reduced form that
\* differs from U
RrefIsRREFCase ==
    /\ ret.op = "rref"
    /\ Len(cache.PLU[1].pivots) >= 2
    /\ cache.PLU[1].pivots[2][2] > 1
    /\ ret.val # cache.PLU[1].U
    /\ ret.val[1][2] # Zero

\* C3: for every tolerance eps, the U of A.PLU(eps) is in echelon form as
\* tested by isEchelon(0); its leading entries at tolerance 0 are exactly the
\* listed pivots; pivot k is in row k; the pivot columns increase strictly;
\* each pivot exceeds eps in absolute value; the entries left of a pivot are
\* exactly 0; the rows from the rank on are exactly zero.
UIsEchelon ==
    (ret.op = "PLU") =>
        LET U == F.U
            pv == F.pivots
        IN  /\ isEchelon(U, NoTol)
            /\ leadingEntries(U, NoTol) = pv
            /\ \A k \in 1..Len(pv) :
                  /\ pv[k][1] = k - 1
                  /\ k > 1 => pv[k][2] > pv[k - 1][2]
                  /\ Exceeds(U[k][pv[k][2] + 1], ret.arg)
                  /\ \A j \in 1..pv[k][2] : U[k][j] = Zero
            /\ \A i \in (Len(pv) + 1)..M(U) : U[i] = VZero(N(U))

\* C3, a case: a positive tolerance under which an entry that is not 0 was
\* cleared, so that U is no longer E.A, and a pivot was still found
UIsEchelonCase ==
    /\ ret.op = "PLU"
    /\ ret.arg = Tol(1, 2, 0)
    /\ Len(F.pivots) >= 1
    /\ Len(F.pivots) < MinorRank(rows)
    /\ Mult(F.E, rows) # F.U

\* A with b as one more column
Augmented(A, b) == [i \in 1..M(A) |-> Append(A[i], b[i])]

\* A x = b has a solution: b adds nothing to the rank of A
Solvable(A, b) == MinorRank(A) = MinorRank(Augmented(A, b))

\* C4: A.solve(b), b of length m, returns null exactly when A x = b has no
\* solution; otherwise it returns a vector x of length n with A x = b.
SolveSolves ==
    (ret.op = "solve") =>
        /\ ~ret.threw
        /\ (ret.val = Null) <=> ~Solvable(rows, ret.arg)
        /\ ret.val # Null =>
              /\ Len(ret.val[1]) = N(rows)
              /\ Apply(rows, ret.val[1]) = ret.arg

\* C4, a case: a solution other than zero of a system with free variables
\* whose rows PLU had to exchange
SolveSolvesCase ==
    /\ ret.op = "solve"
    /\ ret.val # Null
    /\ ret.val[1] # VZero(N(rows))
    /\ Len(cache.PLU[1].pivots) < N(rows)
    /\ cache.PLU[1].signP = -1

\* C5: for a square invertible A, B = A.inverse() is returned and B.A and
\* A.B are both the identity.
InverseInverts ==
    (ret.op = "inverse" /\ isSquare(this) /\ Det(rows) # Zero) =>
        /\ ~ret.threw
        /\ Mult(ret.val, rows) = Identity(N(rows), One)
        /\ Mult(rows, ret.val) = Identity(N(rows), One)

\* C5, a case: a 3 x 3 inverse with an entry that is not an integer, of a
\* matrix whose rows PLU had to exchange
InverseInvertsCase ==
    /\ ret.op = "inverse"
    /\ ~ret.threw
    /\ M(rows) = 3
    /\ cache.PLU[1].P # <<0, 1, 2>>
    /\ \E i, j \in 1..3 : ret.val[i][j][2] # 1

\* C6: for every matrix A and every b of length m, A.solveLeastSquares(b)
\* returns a vector, never null; the x it returns solves the normal equation,
\* A^T A x = A^T b, which is to say that A x - b is orthogonal to the columns
\* of A.
LeastSquaresNormal ==
    (ret.op = "solveLeastSquares") =>
        /\ ~ret.threw
        /\ ret.val # Null
        /\ Len(ret.val[1]) = N(rows)
        /\ Mult(Transpose(rows), Mult(rows, [j \in 1..N(rows) |-> <<ret.val[1][j]>>]))
              = Mult(Transpose(rows), [i \in 1..M(rows) |-> <<ret.arg[i]>>])
        /\ \A j \in 1..N(rows) :
              VDot(Col(rows, j - 1),
                   VAdd(Apply(rows, ret.val[1]), ret.arg, Num(-1), 0)) = Zero

\* C7: A.nullBasis() is a list of exactly n - rank(A) vectors of length n,
\* none of them zero, each with A v = 0; it is empty when A has full column
\* rank; and rank + nullity = n.
NullBasisSpans ==
    (ret.op = "nullBasis") =>
        /\ ~ret.threw
        /\ rank(this, DefaultEps).val = MinorRank(rows)
        /\ Len(ret.val) = N(rows) - rank(this, DefaultEps).val
        /\ MinorRank(rows) = N(rows) => ret.val = <<>>
        /\ rank(this, DefaultEps).val + nullity(this, DefaultEps).val = N(rows)
        /\ \A k \in 1..Len(ret.val) :
              /\ Len(ret.val[k]) = N(rows)
              /\ ret.val[k] # VZero(N(rows))
              /\ Apply(rows, ret.val[k]) = VZero(M(rows))

\* C7, a case: a matrix of rank 2 with three columns whose one basis vector
\* has no entry equal to 0
NullBasisSpansCase ==
    /\ ret.op = "nullBasis"
    /\ N(rows) = 3
    /\ Len(cache.PLU[1].pivots) = 2
    /\ Len(ret.val) = 1
    /\ \A j \in 1..3 : ret.val[1][j] # Zero

\* The step is a call of the method op
Calls(op) == calls' = calls + 1 /\ ret'.op = op

\* The matrix after the step
thisNext == [rows |-> rows', cache |-> cache']

\* Every derived value that was cached before the step is what the query
\* returns after it
StaleAfterStep ==
    /\ cache.transpose # <<>> => transpose(thisNext).val = cache.transpose[1]
    /\ cache.PLU # <<>> => PLU(thisNext, DefaultEps).val = cache.PLU[1]
    /\ cache.rank # <<>> => rank(thisNext, DefaultEps).val = cache.rank[1]
    /\ cache.rref # <<>> => rref(thisNext, DefaultEps).val = cache.rref[1]

\* C8: in every state reached by construction followed by mutating calls,
\* insertSubmatrix at any position with any submatrix among them, all rows
\* have the same length n, and m = 0 implies n = 0.
RowsSameLength ==
    /\ \A i \in 1..M(rows) : Len(rows[i]) = N(rows)
    /\ M(rows) = 0 => N(rows) = 0

RowOpsFrame ==
    [][/\ Calls("rowScale") =>
            /\ ret'.val = "this" /\ ~ret'.threw
            /\ cache' = cache /\ StaleAfterStep
            /\ M(rows') = M(rows)
            /\ \A r \in 1..M(rows) :
                  /\ r # ret'.arg[1] + 1 => rows'[r] = rows[r]
                  /\ Len(rows'[r]) = Len(rows[r])
                  /\ \A k \in 1..ret'.arg[3] : rows'[r][k] = rows[r][k]
       /\ Calls("rowReplace") =>
            /\ ret'.val = "this" /\ ~ret'.threw
            /\ cache' = cache /\ StaleAfterStep
            /\ M(rows') = M(rows)
            /\ \A r \in 1..M(rows) :
                  /\ r # ret'.arg[1] + 1 => rows'[r] = rows[r]
                  /\ Len(rows'[r]) = Len(rows[r])
                  /\ \A k \in 1..ret'.arg[4] : rows'[r][k] = rows[r][k]
       /\ Calls("rowSwap") =>
            /\ ret'.val = "this" /\ ~ret'.threw
            /\ cache' = cache /\ StaleAfterStep
            /\ M(rows') = M(rows)
            /\ rows'[ret'.arg[1] + 1] = rows[ret'.arg[2] + 1]
            /\ rows'[ret'.arg[2] + 1] = rows[ret'.arg[1] + 1]
            /\ \A r \in 1..M(rows) :
                  r \notin {ret'.arg[1] + 1, ret'.arg[2] + 1} =>
                      rows'[r] = rows[r]
       /\ Calls("invalidate") => cache' = EmptyCache]_vars

\* C10, a case: a row of a matrix whose PLU and reduced form were in the
\* cache was replaced from column 1 on, and the cached pivots are no longer
\* as many as the rank of the entries
RowOpsFrameCase ==
    /\ ret.op = "rowReplace"
    /\ ret.arg[4] = 1
    /\ cache.PLU # <<>> /\ cache.rref # <<>>
    /\ Len(cache.PLU[1].pivots) # MinorRank(rows)

-----------------------------------------------------------------------------
(* The echelon tests (SpecEchelon) *)

\* The leading entries of the matrix at the tolerance of the last call
LE == leadingEntries(rows, ret.arg)

\* The column indices of the leading entries le are strictly increasing
ColsIncrease(le) == \A k \in 1..(Len(le) - 1) : le[k][2] < le[k + 1][2]

\* The row indices of the leading entries le are strictly increasing
RowsIncrease(le) == \A k \in 1..(Len(le) - 1) : le[k][1] < le[k + 1][1]

\* C13, as stated: isEchelon(eps) is true exactly when the row indices and
\* the column indices of the leading entries are both strictly increasing.
EchelonIffIncreasing ==
    ret.op = "isEchelon" => (F <=> (RowsIncrease(LE) /\ ColsIncrease(LE)))

\* C13, amended: isEchelon(eps) is true exactly when the k-th leading entry
\* lies in row k (no row without a leading entry precedes a row with one)
\* and the column indices of the leading entries are strictly increasing.
EchelonIffStaircase ==
    ret.op = "isEchelon" =>
        (F <=> (/\ \A k \in 1..Len(LE) : LE[k][1] = k - 1
                /\ ColsIncrease(LE)))

\* A row without a leading entry precedes one with a leading entry, the
\* columns increase, and isEchelon said false
EchelonIffStaircaseCase ==
    /\ ret.op = "isEchelon"
    /\ Len(LE) = 2 /\ LE[1][1] = 0 /\ LE[2][1] = 2
    /\ ColsIncrease(LE)
    /\ F = FALSE

\* C14: isRREF(eps) is true exactly when isEchelon(eps) is true, every
\* leading entry equals exactly 1 and every entry above a leading entry
\* equals exactly 0; so isRREF(eps) implies isEchelon(eps).
RREFIffEchelonAndReduced ==
    ret.op = "isRREF" =>
        /\ F <=> (/\ isEchelon(rows, ret.arg)
                   /\ \A k \in 1..Len(LE) :
                         /\ rows[LE[k][1] + 1][LE[k][2] + 1] = One
                         /\ \A r \in 1..LE[k][1] :
                               rows[r][LE[k][2] + 1] = Zero)
        /\ F => isEchelon(rows, ret.arg)

\* An echelon matrix with leading entries 1 and a nonzero entry above one of
\* them: isRREF said false
RREFIffEchelonAndReducedCase ==
    /\ ret.op = "isRREF"
    /\ isEchelon(rows, ret.arg)
    /\ Len(LE) = 2
    /\ \A k \in 1..2 : rows[LE[k][1] + 1][LE[k][2] + 1] = One
    /\ rows[1][LE[2][2] + 1] # Zero
    /\ F = FALSE

-----------------------------------------------------------------------------
(* The determinant (SpecDet) *)

\* C18: for every square integer matrix of size n <= 4, det (the last
\* coefficient of charpoly) equals the cofactor determinant, the leading
\* coefficient of charpoly is (-1)^n, and the determinant of the example
\* [[1,6,4],[2,-1,3],[5,0,1]] is 97.
DetIsCofactor ==
    /\ ret.op = "det" =>
          /\ ~ret.threw
          /\ F = Det(rows)
          /\ rows = Example => F = Num(97)
    /\ ret.op = "charpoly" =>
          /\ ~ret.threw
          /\ Len(F) = N(rows) + 1
          /\ F[1] = (IF N(rows) % 2 = 1 THEN Num(-1) ELSE One)
          /\ F[N(rows) + 1] = Det(rows)

\* det returned the determinant of a 4 x 4 matrix, which is not 0 nor 1
DetIsCofactorCase ==
    /\ ret.op = "det" /\ ~ret.threw
    /\ M(rows) = 4
    /\ F = Det(rows)
    /\ RGt(RAbs(F), One)

-----------------------------------------------------------------------------
(* The cache under queries (SpecCache) *)

\* The cached derived values: each is a getter or method, and the field of
\* the cache of the same name
Getters ==
    {"transpose", "normal", "charpoly", "PLU", "rank", "rref", "rowOps",
     "nullBasis", "colBasis", "rowBasis", "leftNullBasis", "QR", "eigenvalues"}

\* The call of the step is the getter g, and its value was stored before:
\* the stored value is returned and the cache stays as it is
ReturnsStored(g) ==
    (Calls(g) /\ cache[g] # <<>>) =>
        /\ ~ret'.threw
        /\ ret'.val = cache[g][1]
        /\ cache' = cache

InverseSingularThrows ==
    [][(Calls("inverse") /\ isSquare(this) /\ Det(rows) = Zero) =>
          (ret'.threw /\ rows' = rows)
      ]_vars

\* inverse threw on a 2 x 2 matrix of determinant 0 that is not zero, after
\* reducing it
InverseSingularThrowsCase ==
    /\ ret.op = "inverse" /\ ret.threw
    /\ M(rows) = 2 /\ N(rows) = 2
    /\ Det(rows) = Zero
    /\ rows # ZeroMatrix(2, 2)
    /\ cache.rowOps # <<>>

\* C19: isFullRowRank returns false when m > n, and isFullColRank when
\* m < n, without computing the rank: the cache (rank, PLU) and the entries
\* are left exactly as they were.
FullRankShortCircuit ==
    [][/\ (Calls("isFullRowRank") /\ M(rows) > N(rows)) =>
             (~ret'.threw /\ ret'.val = FALSE /\ cache' = cache /\ rows' = rows)
       /\ (Calls("isFullColRank") /\ M(rows) < N(rows)) =>
             (~ret'.threw /\ ret'.val = FALSE /\ cache' = cache /\ rows' = rows)
      ]_vars

\* isFullRowRank said false on a matrix of 3 rows and rank 2, and neither
\* the rank nor the factorization was stored
FullRankShortCircuitCase ==
    /\ ret.op = "isFullRowRank"
    /\ M(rows) = 3 /\ N(rows) = 2 /\ MinorRank(rows) = 2
    /\ F = FALSE
    /\ cache.rank = <<>> /\ cache.PLU = <<>>

\* C20: after hintEigenvalues(e1..ek), on a matrix of any size,
\* eigenvalues() returns exactly the hinted list, in order, without
\* computing or factoring charpoly, until invalidate(); a matrix larger than
\* 4 x 4 with no hint yields an error from eigenvalues().
HintedEigenvalues ==
    [][/\ Calls("hintEigenvalues") =>
             /\ cache' = [cache EXCEPT !.eigenvalues = <<ret'.arg>>]
             /\ rows' = rows
       /\ (Calls("eigenvalues") /\ cache.eigenvalues # <<>>) =>
             /\ ~ret'.threw
             /\ ret'.val = cache.eigenvalues[1]
             /\ cache' = cache
       /\ ( /\ cache.eigenvalues # <<>>
            /\ ret'.op \notin {"invalidate", "hintEigenvalues"} ) =>
             cache'.eigenvalues = cache.eigenvalues
       /\ Calls("invalidate") => cache'.eigenvalues = <<>>
       /\ ( /\ Calls("eigenvalues")
            /\ cache.eigenvalues = <<>>
            /\ isSquare(this) /\ N(rows) > 4 ) =>
             (ret'.threw /\ cache'.eigenvalues = <<>>)
      ]_vars

\* eigenvalues() returned the hinted list on the 5 x 5 matrix, whose
\* characteristic polynomial was not computed
HintedEigenvaluesCase ==
    /\ calls = 2
    /\ ret.op = "eigenvalues" /\ ~ret.threw
    /\ N(rows) = 5
    /\ F \in Hints /\ F # <<>>
    /\ cache = [EmptyCache EXCEPT !.eigenvalues = <<F>>]

-----------------------------------------------------------------------------
(* Diagonalization (SpecDiag) *)

\* The dimension of the null space of A - lambda I, for a real lambda
GeoDim(A, lambda) ==
    N(A) - MinorRank([i \in 1..M(A) |->
                 [j \in 1..N(A) |->
                     IF i = j THEN RSub(A[i][j], lambda) ELSE A[i][j]]])

\* The real matrix [[X, -Y], [Y, X]] of the complex matrix A - lambda I =
\* X + iY: its rank is twice the complex rank
Realified(A, lambda) ==
    [i \in 1..(2 * M(A)) |->
        [j \in 1..(2 * N(A)) |->
            IF i <= M(A) /\ j <= N(A)
            THEN (IF i = j THEN RSub(A[i][j], lambda.Re) ELSE A[i][j])
            ELSE IF i > M(A) /\ j > N(A)
            THEN (IF i = j THEN RSub(A[i - M(A)][j - N(A)], lambda.Re)
                  ELSE A[i - M(A)][j - N(A)])
            ELSE IF i <= M(A)
            THEN (IF i = j - N(A) THEN lambda.Im ELSE Zero)
            ELSE (IF i - M(A) = j THEN RNeg(lambda.Im) ELSE Zero)]]

\* The dimension of the complex null space of A - lambda I
CplxDim(A, lambda) ==
    N(A) - (rank(Obj(Realified(A, lambda)), NoTol).val \div 2)

\* The eigenvalues that the diagonalization of the step went through
Listed == OneOfPair(cache'.eigenvalues[1], 1)

\* The dimensions of their eigenspaces
Dims ==
    [k \in 1..Len(Listed) |->
        IF Listed[k][1].cplx THEN CplxDim(rows, Listed[k][1])
        ELSE GeoDim(rows, Listed[k][1].Re)]

\* The k-th of the eigenvalues list, with eigenspaces of the dimensions
\* dims, is a failure condition of the diagonalization with the option
\* block: a Complex eigenvalue without block, or an eigenspace of dimension
\* below the multiplicity
Fails(list, dims, k, block) ==
    \/ list[k][1].cplx /\ ~block
    \/ dims[k] < list[k][2]

\* The first of the list to fail, or 0
FirstFailure(list, dims, block) ==
    IF \E k \in 1..Len(list) : Fails(list, dims, k, block)
    THEN CHOOSE k \in 1..Len(list) :
            /\ Fails(list, dims, k, block)
            /\ \A h \in 1..(k - 1) : ~Fails(list, dims, h, block)
    ELSE 0

\* The outcome r of diagonalize is null exactly when some eigenvalue fails,
\* and r is no error
NullIffFails(list, dims, block, r) ==
    /\ ~r.threw
    /\ r.val = Null <=> \E k \in 1..Len(list) : Fails(list, dims, k, block)

\* The outcome r of diagonalize is decided by the k-th eigenvalue, the
\* first failure (0 for none)
DecidedBy(list, dims, block, k, r, n) ==
    IF k = 0
    THEN /\ ~r.threw
         /\ r.val # Null
         /\ M(r.val[1].D) = n
         /\ M(r.val[1].C) = (IF Len(list) = 0 THEN 0 ELSE n)
    ELSE IF ~(list[k][1].cplx /\ ~block) /\ dims[k] = 0
    THEN r.threw
    ELSE ~r.threw /\ r.val = Null

-----------------------------------------------------------------------------
(* Properties of the objects *)

\* The entries of the matrix b are the same before and after the step
SameEntries(b) == Entries(heap', mats'[b]) = Entries(heap, mats[b])

\* C12: no matrix aliases another's storage after construction: an in-place
\* mutation of a matrix made by create (from Arrays or from Vectors), clone,
\* transpose, mult, identity, zero or permutation changes no entry of any
\* other matrix and none of the rows of numbers it was created from, and a
\* change of such a row by the caller changes no entry of a matrix.
NoAliasing ==
    [][/\ (calls' = calls + 1 /\ ret'.op \in Mutators) =>
            /\ \A b \in 1..Len(mats) : b # ret'.arg[1] => SameEntries(b)
            /\ \A k \in 1..Len(mats[ret'.arg[1]].from) :
                  heap'[mats[ret'.arg[1]].from[k]].val =
                      heap[mats[ret'.arg[1]].from[k]].val
       /\ (calls' = calls + 1 /\ ret'.op = "Vector.scale") =>
            \A b \in 1..Len(mats) : SameEntries(b)]_vars

-----------------------------------------------------------------------------
(* Properties of the factors of PLU *)

\* P holds each of 0..m-1 once
IsPermutation(P, m) ==
    Len(P) = m /\ \A v \in 0..(m - 1) : \E i \in 1..m : P[i] = v

\* The number of exchanges of position k with a later position, for
\* k = from.., that turn arr into P
RECURSIVE SwapsOf(_, _, _)
SwapsOf(arr, P, from) ==
    IF from > Len(P) THEN 0
    ELSE IF arr[from] = P[from] THEN SwapsOf(arr, P, from + 1)
    ELSE LET j == CHOOSE k \in from..Len(P) : arr[k] = P[from]
         IN  1 + SwapsOf([arr EXCEPT ![j] = arr[from], ![from] = arr[j]],
                         P, from + 1)

\* C25: the P of A.PLU() is a permutation of 0..m-1, and signP is the
\* determinant of Matrix.permutation(P), which is -1 to the number of row
\* swaps made (a swap exchanges the current row with a later one).
SignPIsDeterminant ==
    (ret.op = "PLU") =>
        /\ IsPermutation(F.P, M(rows))
        /\ Num(F.signP) = Det(Permutation(F.P))
        /\ F.signP =
             (IF SwapsOf([i \in 1..M(rows) |-> i - 1], F.P, 1) % 2 = 0
              THEN 1 ELSE -1)

\* C25, a case: three rows and one swap, so that the sign is -1
SignPIsDeterminantCase ==
    /\ ret.op = "PLU" /\ ret.arg = DefaultEps
    /\ M(rows) = 3
    /\ F.signP = -1
    /\ F.P[1] # 0

\* The rows from curRow on whose entry in column curCol is of the largest
\* absolute value
Largest(A, curRow, curCol) ==
    {i \in curRow..(M(A) - 1) :
        \A k \in curRow..(M(A) - 1) :
            ~RGt(RAbs(A[k + 1][curCol + 1]), RAbs(A[i + 1][curCol + 1]))}

\* The first or the last row of S
Pick(S, last) ==
    CHOOSE i \in S : \A k \in S : IF last THEN k <= i ELSE k >= i

\* L is lower unitriangular with multipliers of absolute value at most 1
BoundedUnitriangular(L) ==
    \A i, j \in 1..Len(L) :
        /\ i = j => L[i][j] = One
        /\ i < j => L[i][j] = Zero
        /\ i > j => ~RGt(RAbs(L[i][j]), One)

\* After PLU: the scan for a pivot, started at any row of any column of A,
\* chooses among the rows of largest absolute value the last one (or the
\* first), the row of the first pivot is that choice, and L is lower
\* unitriangular with multipliers of absolute value at most 1
PivotChoice(last) ==
    (ret.op = "PLU") =>
        /\ \A curRow \in 0..(M(rows) - 1) : \A curCol \in 0..(N(rows) - 1) :
              MaxPivotRow(rows, curCol, curRow + 1, curRow) =
                  Pick(Largest(rows, curRow, curCol), last)
        /\ Len(F.pivots) >= 1 =>
              F.P[1] = Pick(Largest(rows, 0, F.pivots[1][2]), last)
        /\ BoundedUnitriangular(F.L)

\* C26, as stated: the pivot is the entry of largest absolute value at or
\* below the current row, the lowest such row on ties; L is lower
\* unitriangular and its multipliers are at most 1 in absolute value.
PivotLowestOnTies == PivotChoice(TRUE)

\* C26, amended: the pivot is the entry of largest absolute value at or
\* below the current row, the topmost such row on ties; L is lower
\* unitriangular and its multipliers are at most 1 in absolute value, also
\* after a later swap exchanged stored multipliers.
PivotTopmostOnTies == PivotChoice(FALSE)

\* C26, a case: three rows, a tie for the first pivot, and a swap for the
\* second pivot that exchanged two different multipliers of column 0
PivotTopmostOnTiesCase ==
    /\ ret.op = "PLU" /\ ret.arg = DefaultEps
    /\ M(rows) = 3
    /\ Len(F.pivots) >= 2
    /\ Cardinality(Largest(rows, 0, F.pivots[1][2])) >= 2
    /\ F.P = <<0, 2, 1>>
    /\ F.L[2][1] # F.L[3][1]

-----------------------------------------------------------------------------
(* Properties of E and of rowOps *)

\* y^T A = 0
LeftNull(y, A) ==
    \A j \in 1..N(A) :
        RSum([i \in 1..M(A) |-> RMul(y[i], A[i][j])], M(A)) = Zero

\* C23: the E of A.PLU() is m x m, invertible, and E.A = U; leftNullBasis()
\* is the last m - rank rows of E: m - rank vectors y with y^T A = 0.
EAEqualsU ==
    (ret.op = "leftNullBasis") =>
        LET E == cache.PLU[1].E
            m == M(rows)
            r == MinorRank(rows)
        IN  /\ ~ret.threw
            /\ M(E) = m /\ \A i \in 1..m : Len(E[i]) = m
            /\ Det(E) # Zero
            /\ Mult(E, rows) = cache.PLU[1].U
            /\ Len(F) = m - r
            /\ \A k \in 1..Len(F) :
                  /\ F[k] = E[r + k]
                  /\ Len(F[k]) = m
                  /\ LeftNull(F[k], rows)

\* C23, a case: three rows of rank 2, and a left null vector that is not a
\* row of the identity
EAEqualsUCase ==
    /\ ret.op = "leftNullBasis"
    /\ M(rows) = 3
    /\ Len(F) = 1
    /\ F[1][3] = One
    /\ F[1][1] # Zero /\ F[1][2] # Zero

\* C24: rowOps().A = rref(A), for every matrix A, invertible or not.
RowOpsGivesRref ==
    /\ (ret.op = "rowOps") =>
          ~ret.threw /\ Mult(ret.val, rows) = cache.rref[1]
    /\ (ret.op = "rref") =>
          ~ret.threw /\ Mult(cache.rowOps[1], rows) = ret.val

\* C24, a case: a singular 3 x 3 matrix of rank 2 in which an entry above
\* the second pivot was cleared, so that rowOps differs from E
RowOpsGivesRrefCase ==
    /\ ret.op = "rowOps"
    /\ M(rows) = 3 /\ N(rows) = 3
    /\ Len(cache.PLU[1].pivots) = 2
    /\ cache.PLU[1].U[1][cache.PLU[1].pivots[2][2] + 1] # Zero
    /\ ret.val[1] # cache.PLU[1].E[1]

-----------------------------------------------------------------------------
(* Properties of QR.  Q[i][k] = <<x, s>> and R[k][j] = <<y, t>> stand for   *)
(* x / sqrt(s) and y / sqrt(t): their product is the rational x y / s when  *)
(* s = t, and 0 when x or y is 0.                                           *)

\* Every product of an entry of row i of Q with an entry of column j of R is
\* a rational
Commensurable(Q, R) ==
    \A i \in 1..Len(Q) : \A k \in 1..Len(R) : \A j \in 1..Len(R) :
        (Q[i][k][1] # Zero /\ R[k][j][1] # Zero) => Q[i][k][2] = R[k][j][2]

\* Q.mult(R)
QTimesR(Q, R) ==
    [i \in 1..Len(Q) |->
        [j \in 1..Len(R) |->
            RSum([k \in 1..Len(R) |->
                    IF Q[i][k][1] = Zero \/ R[k][j][1] = Zero THEN Zero
                    ELSE RDiv(RMul(Q[i][k][1], R[k][j][1]), Q[i][k][2])],
                 Len(R))]]

\* Column j (1-based) of Q is zero
ZeroColumn(Q, j) == \A i \in 1..Len(Q) : Q[i][j][1] = Zero

\* The columns a and b of Q are orthogonal, and a has length 1
Orthonormal(Q, a, b) ==
    /\ RSum([i \in 1..Len(Q) |-> RMul(Q[i][a][1], Q[i][b][1])], Len(Q)) = Zero
    /\ RSum([i \in 1..Len(Q) |-> RMul(Q[i][a][1], Q[i][a][1])], Len(Q))
          = Q[1][a][2]

\* The outcome {Q, R, LD} is a QR factorization of A whose Q has mq rows
Factorizes(A, f, mq) ==
    LET n == N(A)
    IN  /\ M(f.Q) = mq /\ \A i \in 1..M(f.Q) : Len(f.Q[i]) = n
        /\ M(f.R) = n /\ \A i \in 1..n : Len(f.R[i]) = n
        /\ \A i, j \in 1..n : i > j => f.R[i][j][1] = Zero
        /\ Commensurable(f.Q, f.R)
        /\ QTimesR(f.Q, f.R) = [i \in 1..mq |-> A[i]]
        /\ \A a, b \in 1..n :
              (a # b /\ ~ZeroColumn(f.Q, a) /\ ~ZeroColumn(f.Q, b)) =>
                  Orthonormal(f.Q, a, b)
        /\ \A j \in 1..n :
              /\ (\E k \in 1..Len(f.LD) : f.LD[k] = j - 1) <=>
                    (ZeroColumn(f.Q, j) /\ f.R[j][j][1] = Zero)
              /\ ZeroColumn(f.Q, j) <=> f.R[j][j][1] = Zero

\* C21: for every m x n matrix A, A.QR() returns Q (m x n) and R (n x n,
\* upper triangular) with Q.R = A; the nonzero columns of Q are mutually
\* orthonormal; column j of Q is zero with R[j][j] = 0 exactly for the j
\* listed in LD.
QRFactorizes ==
    (ret.op = "QR") => ~ret.threw /\ Factorizes(rows, F, M(rows))

-----------------------------------------------------------------------------
(* Properties of the rank *)

\* C22: in every state reached by PLU, QR, rank, rref and the bases, called
\* in any order and at any tolerances on a matrix that is not modified,
\* rank() equals pivots().length, also when QR stored the rank first or
\* overwrote it.
RankIsPivotCount ==
    \A e1, e2 \in CacheEps :
        /\ ~rank(this, e1).threw
        /\ rank(this, e1).val = Len(pivots(rank(this, e1).obj, e2).val)

-----------------------------------------------------------------------------
(* Properties of invalidate *)

\* C27: after invalidate() the cache holds no derived value, and after any
\* in-place mutations followed by invalidate(), a derived query returns what
\* it returns on a matrix freshly constructed with the current entries, and
\* leaves the cache that it leaves there: the rank, the transpose and the
\* determinant are those of the current entries.
InvalidateForgets ==
    [][/\ Calls("invalidate") => cache' = EmptyCache
       /\ (calls' = calls + 1 /\ ret.op = "invalidate") =>
             /\ rows' = rows
             /\ ret'.val = Derive(Obj(rows), ret'.op).val
             /\ ret'.threw = Derive(Obj(rows), ret'.op).threw
             /\ cache' = Derive(Obj(rows), ret'.op).obj.cache
             /\ ret'.op = "rank" => ret'.val = MinorRank(rows)
             /\ ret'.op = "transpose" => ret'.val.rows = Transpose(rows)
             /\ (ret'.op = "det" /\ ~ret'.threw) => ret'.val = Det(rows)]_vars

\* C27, a case: a matrix whose entry 2 shows a mutation, invalidated and
\* then asked for its rank, which is 1 by its minors
InvalidateForgetsCase ==
    /\ ret.op = "rank"
    /\ calls >= 4
    /\ M(rows) = 2 /\ N(rows) = 2
    /\ rows[1][1] = Num(2)
    /\ ret.val = 1 /\ MinorRank(rows) = 1

-----------------------------------------------------------------------------
(* Properties of eigenspace (SpecEigen) *)

\* The entries of the real-eigenspace cache before the step
Stored == MapOf(cache.eigenspaces)

\* The indices of the keys of the map within eps of the real x
Near(map, x, eps) ==
    {k \in 1..Len(map) : ~Exceeds(RSub(map[k][1], x), eps)}

\* The index k is one of a key of the map closest to x among those within
\* eps
Closest(map, x, eps, k) ==
    /\ k \in Near(map, x, eps)
    /\ \A h \in Near(map, x, eps) :
          ~RGt(RAbs(RSub(map[k][1], x)), RAbs(RSub(map[h][1], x)))

\* A - x I
Shifted(A, x) ==
    [i \in 1..M(A) |->
        [j \in 1..N(A) |-> IF i = j THEN RSub(A[i][j], x) ELSE A[i][j]]]

\* The step of eigenspace(lambda, eps) on the real path, x being the real
\* value looked up: a hit returns the entry of a closest key and leaves the
\* map alone; a miss computes the null space of A - x I, throws and adds no
\* entry when its dimension is 0, stores it under x and returns it otherwise
RealPathStep(x, eps) ==
    IF Near(Stored, x, eps) # {}
    THEN /\ ~ret'.threw
         /\ \E k \in 1..Len(Stored) :
               Closest(Stored, x, eps, k) /\ ret'.val = Stored[k][2]
         /\ MapOf(cache'.eigenspaces) = Stored
    ELSE IF Len(nullBasis(Obj(Shifted(rows, x)), eps).val) = 0
    THEN /\ ret'.threw
         /\ MapOf(cache'.eigenspaces) = Stored
    ELSE /\ ~ret'.threw
         /\ ret'.val = SubspaceOf(nullBasis(Obj(Shifted(rows, x)), eps).val,
                                  N(rows))
         /\ \A k \in 1..ret'.val.dim :
               Apply(rows, ret'.val.basis[k])
                   = [j \in 1..N(rows) |-> RMul(x, ret'.val.basis[k][j])]
                 \/ eps # DefaultEps
         /\ (eps = DefaultEps => ret'.val.dim = GeoDim(rows, x))
         /\ MapOf(cache'.eigenspaces) = Append(Stored, <<x, ret'.val>>)

\* C28: eigenspace(lambda, eps) for a real lambda, or a Complex one with
\* |Im| <= eps taken as its real part: when the real-eigenspace cache holds
\* a key within eps of lambda, the entry of the closest key is returned and
\* nothing is computed or stored; otherwise the null space of A - lambda I
\* is computed: of dimension 0, an error is signalled and no entry is added;
\* otherwise it is stored under the key lambda and returned.  The entries of
\* A and the other cached results are unchanged in every case.
EigenspaceRealPath ==
    [][(Calls("eigenspace")
          /\ ~(ret'.arg[1].cplx /\ Exceeds(ret'.arg[1].Im, ret'.arg[2])))
        => /\ RealPathStep(ret'.arg[1].Re, ret'.arg[2])
           /\ rows' = rows
           /\ [cache' EXCEPT !.eigenspaces = <<>>]
                = [cache EXCEPT !.eigenspaces = <<>>]
      ]_vars

\* The eigenspaces of 0 and 1 of [[0, 0], [0, 1]] were stored, and the
\* Complex 1 + i at the tolerance 1, taken as 1 and within 1 of both keys,
\* was answered with the eigenspace of 1, the closest
EigenspaceRealPathCase ==
    /\ calls = 3
    /\ rows = <<<<Zero, Zero>>, <<Zero, One>>>>
    /\ ret.op = "eigenspace" /\ ~ret.threw
    /\ ret.arg = <<Complex(One, One), Tol(1, 1, 0)>>
    /\ Len(MapOf(cache.eigenspaces)) = 2
    /\ cache.eigenspaces[1][1][1] = Zero
    /\ cache.eigenspaces[1][2][1] = One
    /\ ret.val = cache.eigenspaces[1][2][2]
    /\ ret.val.basis = <<<<Zero, One>>>>

-----------------------------------------------------------------------------
(* Properties of the matrices C and D of diagonalize (SpecDiag) *)

\* The eigenvalues of the list that diagonalize goes through: the real ones
\* and the Complex ones with Im >= 0
Used(list) ==
    SelectSeq(list, LAMBDA e : ~e[1].cplx \/ ~RGt(Zero, e[1].Im))

\* The columns that the eigenvalues of the list take, in order: a real one
\* of multiplicity k takes k columns, a Complex one 2k, a column of real
\* parts ("re") before a column of imaginary parts ("im") k times; each
\* column is marked with the place of its eigenvalue in the list
RECURSIVE Slots(_, _)
Slots(list, k) ==
    IF k > Len(list) THEN <<>>
    ELSE (IF list[k][1].cplx
          THEN [c \in 1..(2 * list[k][2]) |->
                   [at |-> k, lambda |-> list[k][1],
                    part |-> IF c % 2 = 1 THEN "re" ELSE "im"]]
          ELSE [c \in 1..list[k][2] |->
                   [at |-> k, lambda |-> list[k][1], part |-> "real"]])
         \o Slots(list, k + 1)

\* The matrix D that goes with the columns cols: lambda on the diagonal for
\* a real lambda, the block [[Re, Im], [-Im, Re]] for a pair of columns of
\* a Complex one, 0 elsewhere
BlockDiagonal(cols) ==
    [i \in 1..Len(cols) |->
        [j \in 1..Len(cols) |->
            IF i = j THEN cols[i].lambda.Re
            ELSE IF cols[i].part = "re" /\ j = i + 1 THEN cols[i].lambda.Im
            ELSE IF cols[i].part = "im" /\ j = i - 1
            THEN RNeg(cols[i].lambda.Im)
            ELSE Zero]]

\* v scaled by the rational c
Scaled(v, c) == [j \in 1..Len(v) |-> RMul(c, v[j])]

\* The sum of the vectors v and w
Plus(v, w) == [j \in 1..Len(v) |-> RAdd(v[j], w[j])]

\* The column c of the matrix Cm, whose columns are marked by cols, is in
\* the eigenspace of A that its mark names: A v = lambda v for a real
\* lambda; for the pair (u, v) of a Complex one, u + iv is an eigenvector:
\* A u = Re u - Im v and A v = Im u + Re v
InEigenspace(A, Cm, cols, c) ==
    CASE cols[c].part = "real" ->
           Apply(A, Col(Cm, c - 1)) = Scaled(Col(Cm, c - 1), cols[c].lambda.Re)
      [] cols[c].part = "re" ->
           Apply(A, Col(Cm, c - 1))
             = Plus(Scaled(Col(Cm, c - 1), cols[c].lambda.Re),
                    Scaled(Col(Cm, c), RNeg(cols[c].lambda.Im)))
      [] cols[c].part = "im" ->
           Apply(A, Col(Cm, c - 1))
             = Plus(Scaled(Col(Cm, c - 2), cols[c].lambda.Im),
                    Scaled(Col(Cm, c - 1), cols[c].lambda.Re))

\* The columns of Cm that the k-th eigenvalue of the list takes are
\* linearly independent: as many as the rank of the matrix they make
IndependentColumns(Cm, cols, k) ==
    LET own == SelectSeq([c \in 1..Len(cols) |-> c],
                         LAMBDA c : cols[c].at = k)
    IN  MinorRank([c \in 1..Len(own) |-> Col(Cm, own[c] - 1)]) = Len(own)

\* The pair {C, D} f is a diagonalization of the n x n matrix A with the
\* eigenvalues of the list
Diagonalizes(A, f, list, n) ==
    /\ Len(Slots(list, 1)) = n
    /\ M(f.C) = n /\ \A i \in 1..n : Len(f.C[i]) = n
    /\ f.D = BlockDiagonal(Slots(list, 1))
    /\ \A c \in 1..n : InEigenspace(A, f.C, Slots(list, 1), c)
    /\ \A k \in 1..Len(list) : IndependentColumns(f.C, Slots(list, 1), k)
    /\ Mult(A, f.C) = Mult(f.C, f.D)

\* C29: whenever diagonalize returns {C, D} for an n x n matrix A whose
\* eigenvalues have multiplicities of sum n, C and D are n x n, a real
\* eigenvalue of multiplicity k takes k diagonal entries of D and k
\* independent vectors of its eigenspace as the columns of C at these
\* places, a Complex eigenvalue with Im >= 0 takes per multiplicity a block
\* [[Re, Im], [-Im, Re]] of D and the real and imaginary parts of an
\* eigenvector as the two columns of C (its conjugate is skipped), and
\* A C = C D.
DiagonalizeGivesCD ==
    [][(/\ Calls("diagonalize")
        /\ ~ret'.threw
        /\ ret'.val # Null
        /\ Weight(cache'.eigenvalues[1]) = N(rows))
        => Diagonalizes(rows, ret'.val[1], Used(cache'.eigenvalues[1]), N(rows))
      ]_vars

\* The 3 x 3 matrix of a rotation beside the eigenvalue 1 was diagonalized
\* with blocks: D has the block of the eigenvalue i and the entry 1
DiagonalizeGivesCDCase ==
    /\ ret.op = "diagonalize" /\ ~ret.threw /\ ret.val # Null
    /\ rows = <<<<Zero, One, Zero>>, <<Num(-1), Zero, Zero>>, <<Zero, Zero, One>>>>
    /\ \E i \in 1..2 :
          /\ ret.val[1].D[i][i + 1] = One
          /\ ret.val[1].D[i + 1][i] = Num(-1)
    /\ \E i \in 1..3 : ret.val[1].D[i][i] = One
    /\ Mult(rows, ret.val[1].C) = Mult(ret.val[1].C, ret.val[1].D)

-----------------------------------------------------------------------------
(* Properties of the derived queries as read-only operations *)

\* The derived queries of the statement
ReadOnlyQueries ==
    {"PLU", "pivots", "rank", "rref", "rowOps", "solve", "solveLeastSquares",
     "nullBasis", "colBasis", "rowBasis", "leftNullBasis", "QR", "eigenspace",
     "diagonalize"}

\* The cache fields that hold one result; the two others are maps, which
\* hold one result per key
SingleFields == DOMAIN EmptyCache \ {"eigenspaces", "cplxEigenspaces"}

\* Every result cached in c is cached in d, unchanged
KeepsResults(c, d) ==
    /\ \A f \in SingleFields : c[f] # <<>> => d[f] = c[f]
    /\ \A f \in {"eigenspaces", "cplxEigenspaces"} :
          /\ Len(MapOf(d[f])) >= Len(MapOf(c[f]))
          /\ SubSeq(MapOf(d[f]), 1, Len(MapOf(c[f]))) = MapOf(c[f])

\* C30: the derived queries are read-only: a call of PLU, pivots, rank,
\* rref, rowOps, solve, solveLeastSquares, nullBasis, colBasis, rowBasis,
\* leftNullBasis, QR, eigenspace or diagonalize leaves the entries of the
\* matrix unchanged and leaves every result that was cached before the call
\* cached and unchanged; so E A = U, when it held of the cached PLU before
\* the call, holds of it after the call.
QueriesAreReadOnly ==
    [][(calls' = calls + 1 /\ ret'.op \in ReadOnlyQueries)
        => /\ rows' = rows
           /\ KeepsResults(cache, cache')
           /\ (cache.PLU # <<>> /\ Mult(cache.PLU[1].E, rows) = cache.PLU[1].U)
                 => Mult(cache'.PLU[1].E, rows') = cache'.PLU[1].U
      ]_vars

=============================================================================
